---- MODULE Spec2Model ----
(***************************************************************************)
(* Model of the SMS gateway of src/send_sms.py and src/sms_api.py:         *)
(*   - the pure text functions (split_at_word_boundary, split_sms_message),*)
(*     applied to bounded inputs under SplitSpec;                          *)
(*   - the router client TRB245SMS (token cache, authenticate,             *)
(*     is_token_valid, get_modems, send_sms) under Spec;                   *)
(*   - the location of the token cache file under CacheNameSpec;           *)
(*   - the modem selection of the gateway and of main under ModemSpec;     *)
(*   - the gateway's handler of GET / (sms_api.py) under GatewaySpec;      *)
(*   - processes saving to and loading from one cache file, statement by   *)
(*     statement, under RaceSpec.                                          *)
(* Strings are sequences of one-character strings; Python's 0-based index  *)
(* i is the TLA+ index i + 1.                                              *)
(***************************************************************************)
EXTENDS Integers, Sequences, FiniteSets, TLC

VARIABLES
    \* ---- pure-function harness (SplitSpec) ----
    message,        \* the message handed to split_sms_message
    max_length,     \* its max_length argument
    add_numbering,  \* its add_numbering argument
    split_pc,       \* "input" before the call, "returned" after it, "off" under Spec
    split_out,      \* what the call produced: [parts, diverges]
    \* ---- router client (Spec) ----
    now,            \* the clock, time.time(), in seconds
    ticks,          \* how often the clock has advanced
    client,         \* the TRB245SMS object: token, token_expires_at, session state
    cache,          \* the content of the token cache file
    pc,             \* "idle", or "sending" inside a multi-segment send_sms
    send,           \* the loop state of the send_sms call in progress
    last,           \* the call that just ended: its inputs' summary and its result
    issued,         \* when, and for how long, the router issued the token held
                    \* in memory (mem) and the one in the cache file (file)
    \* ---- cache locations (CacheNameSpec) ----
    router_urls,        \* the router_url arguments of two TRB245SMS(...) calls
    token_cache_files,  \* the token_cache_file of the two objects, <<>> before
    \* ---- modem selection (ModemSpec) ----
    selection,          \* [modems: what get_modems returned, by: who selected,
                        \*  modem_id: the modem the SMS is sent through]
    \* ---- gateway (GatewaySpec) ----
    gw,                 \* the handler of GET /: its stage, its locals, the router
                        \* calls it caused and its response
    gw_twin,            \* the same for the request that differs in the
                        \* caller's username and password only
    \* ---- processes sharing one cache file (RaceSpec) ----
    disk,               \* the cache file's directory entry and its bytes
    procs,              \* per process: the save or load it is inside, and
                        \* where; the result of its last load
    saves,              \* history: the entries written by saves, the last one
    \* ---- further calls of the pure functions ----
    boundary,           \* split_at_word_boundary(message, max_length): whether
                        \* it was called, and the pair it returned
    resplit,            \* split_sms_message applied to the concatenated bodies
                        \* of the segments in split_out
    phone               \* normalize_phone_number: its argument, "input" or
                        \* "returned", and what it returned

splitVars == <<message, max_length, add_numbering, split_pc, split_out>>

clientVars == <<now, ticks, client, cache, pc, send, last, issued>>

nameVars == <<router_urls, token_cache_files>>

\* the variables of the other specifications, which the splitter and the
\* router client leave alone
gwVars == <<gw, gw_twin>>

raceVars == <<disk, procs, saves>>

pureVars == <<boundary, resplit, phone>>

otherVars == <<router_urls, token_cache_files, selection, gw, gw_twin,
               disk, procs, saves, boundary, resplit, phone>>

vars == <<message, max_length, add_numbering, split_pc, split_out,
          now, ticks, client, cache, pc, send, last, issued,
          router_urls, token_cache_files, selection, gw, gw_twin,
          disk, procs, saves, boundary, resplit, phone>>

None == "None"

Max(a, b) == IF a >= b THEN a ELSE b

SetMax(S) == CHOOSE x \in S : \A y \in S : y <= x

(***************************************************************************)
(* Python string primitives                                                *)
(***************************************************************************)

\* text[:k], k of any sign (a negative k counts from the end)
PySliceTo(text, k) ==
    LET n == Len(text)
        e == IF k >= 0 THEN (IF k > n THEN n ELSE k) ELSE Max(0, n + k)
    IN  SubSeq(text, 1, e)

\* text[k:], k of any sign
PySliceFrom(text, k) ==
    LET n == Len(text)
        b == IF k >= 0 THEN (IF k > n THEN n ELSE k) ELSE Max(0, n + k)
    IN  SubSeq(text, b + 1, n)

\* the characters str.rstrip() / str.lstrip() remove (ASCII part of str.isspace)
IsPyWhitespace(c) == c \in {" ", "\n", "\t", "\r", "\f"}

RECURSIVE RStrip(_)
RStrip(text) ==
    IF text # <<>> /\ IsPyWhitespace(text[Len(text)])
    THEN RStrip(SubSeq(text, 1, Len(text) - 1))
    ELSE text

RECURSIVE LStrip(_)
LStrip(text) ==
    IF text # <<>> /\ IsPyWhitespace(text[1])
    THEN LStrip(Tail(text))
    ELSE text

\* str(n) for n >= 0
RECURSIVE IntToStr(_)
IntToStr(n) ==
    LET d == <<"0", "1", "2", "3", "4", "5", "6", "7", "8", "9">>
    IN  IF n < 10 THEN <<d[n + 1]>> ELSE IntToStr(n \div 10) \o <<d[(n % 10) + 1]>>

\* f"{i}/{total}: "
NumberingPrefix(i, total) == IntToStr(i) \o <<"/">> \o IntToStr(total) \o <<":", " ">>

(***************************************************************************)
(* split_at_word_boundary                                                  *)
(***************************************************************************)

\* lookback of the whitespace scan: range(max_length, max(0, max_length - 20), -1)
WhitespaceWindow == 20

\* lookback of the punctuation scan: range(max_length, max(0, max_length - 10), -1)
PunctuationWindow == 10

WordSeparators == {" ", "\n", "\t", "\r"}

\* the ASCII members of ('.', ',', ';', ':', '!', '?', '-', en dash, em dash)
PunctuationMarks == {".", ",", ";", ":", "!", "?", "-"}

\* the i of the first hit of a backward scan over
\* range(limit, max(0, limit - window), -1), or -1 when the loop ends without break
ScanBackFrom(text, limit, window, marks) ==
    LET hits == {i \in (Max(0, limit - window) + 1)..limit :
                    i < Len(text) /\ text[i + 1] \in marks}
    IN  IF hits = {} THEN -1 ELSE SetMax(hits)

\* the scan of the first loop starts at i = limit
WhitespaceScanStart(limit) == limit

split_at_word_boundary(text, limit) ==
    IF Len(text) <= limit THEN <<text, <<>>>>
    ELSE
        LET ws    == ScanBackFrom(text, WhitespaceScanStart(limit), WhitespaceWindow,
                                  WordSeparators)
            best1 == IF ws # -1 THEN ws + 1 ELSE limit
            pu    == IF best1 = limit
                     THEN ScanBackFrom(text, limit, PunctuationWindow, PunctuationMarks)
                     ELSE -1
            best_split == IF pu # -1 THEN pu + 1 ELSE best1
        IN  <<RStrip(PySliceTo(text, best_split)), LStrip(PySliceFrom(text, best_split))>>

(***************************************************************************)
(* split_sms_message                                                       *)
(***************************************************************************)

\* One run of the loop "while remaining_text:" with body budget avail.
\* The loop's control depends on remaining_text alone, and remaining_text never
\* grows, so an iteration that leaves it unchanged repeats forever: the loop
\* diverges (appending parts without end).
RECURSIVE GreedyLoop(_, _, _)
GreedyLoop(remaining_text, avail, parts) ==
    IF remaining_text = <<>> THEN [parts |-> parts, diverges |-> FALSE]
    ELSE IF Len(remaining_text) <= avail
    THEN [parts |-> Append(parts, remaining_text), diverges |-> FALSE]
    ELSE
        LET sp   == split_at_word_boundary(remaining_text, avail)
            part == sp[1]
            rest == sp[2]
        IN  IF part # <<>>
            THEN IF rest = remaining_text
                 THEN [parts |-> parts, diverges |-> TRUE]
                 ELSE GreedyLoop(rest, avail, Append(parts, part))
            ELSE
                \* fallback: hard split of what split_at_word_boundary left
                LET hard == PySliceTo(rest, avail)
                    next == LStrip(PySliceFrom(rest, avail))
                IN  IF next = remaining_text
                    THEN [parts |-> parts, diverges |-> TRUE]
                    ELSE GreedyLoop(next, avail, Append(parts, hard))

\* RenderPart with the parts counted from 0 (enumerate(parts) without its start)
RenderPartZeroBased(i, total, part, limit) ==
    LET prefix          == NumberingPrefix(i - 1, total)
        numbered_part   == prefix \o part
        remaining_length == limit - Len(prefix)
    IN  IF Len(numbered_part) > limit
        THEN IF remaining_length > 0
             THEN prefix \o split_at_word_boundary(part, remaining_length)[1]
             ELSE part
        ELSE numbered_part

\* the rendering of part i of total (the loop body of "for i, part in enumerate")
RenderPart(i, total, part, limit) ==
    LET prefix          == NumberingPrefix(i, total)
        numbered_part   == prefix \o part
        remaining_length == limit - Len(prefix)
    IN  IF Len(numbered_part) > limit
        THEN IF remaining_length > 0
             THEN prefix \o split_at_word_boundary(part, remaining_length)[1]
             ELSE part
        ELSE numbered_part

CeilDiv(a, b) == (a + b - 1) \div b

\* len(f"{total}/{total}: ")
NumberingLength(total) == Len(NumberingPrefix(total, total))

\* the loop did not end: nothing is returned
Diverges == [parts |-> <<>>, diverges |-> TRUE]

\* "if actual_numbering_length > max_numbering_length": the parts are computed
\* again with the budget of the actual number of parts
SecondPass(msg, limit, max_numbering_length, pass1) ==
    IF pass1.diverges THEN Diverges
    ELSE IF NumberingLength(Len(pass1.parts)) > max_numbering_length
    THEN GreedyLoop(msg, limit - NumberingLength(Len(pass1.parts)), <<>>)
    ELSE pass1

\* "for i, part in enumerate(parts, 1)": the numbered parts
NumberedParts(pass, limit) ==
    IF pass.diverges THEN Diverges
    ELSE [parts |-> [i \in 1..Len(pass.parts) |->
                       RenderPart(i, Len(pass.parts), pass.parts[i], limit)],
          diverges |-> FALSE]

\* the numbering branch: estimated_parts = ceil(len / max_length), the first
\* pass with available_length = max_length - max_numbering_length
SplitNumbered(msg, limit, max_numbering_length) ==
    NumberedParts(SecondPass(msg, limit, max_numbering_length,
                             GreedyLoop(msg, limit - max_numbering_length, <<>>)),
                  limit)

\* split_sms_message with "len(message) < max_length" as its second test
SplitBelowMaxOnly(msg, limit, numbering) ==
    IF msg = <<>> THEN [parts |-> << <<>> >>, diverges |-> FALSE]
    ELSE IF Len(msg) < limit THEN [parts |-> <<msg>>, diverges |-> FALSE]
    ELSE IF numbering
    THEN SplitNumbered(msg, limit, NumberingLength(CeilDiv(Len(msg), limit)))
    ELSE GreedyLoop(msg, limit, <<>>)

split_sms_message(msg, limit, numbering) ==
    IF msg = <<>> THEN [parts |-> << <<>> >>, diverges |-> FALSE]
    ELSE IF Len(msg) <= limit THEN [parts |-> <<msg>>, diverges |-> FALSE]
    ELSE IF numbering
    THEN SplitNumbered(msg, limit, NumberingLength(CeilDiv(Len(msg), limit)))
    ELSE GreedyLoop(msg, limit, <<>>)

(***************************************************************************)
(* TRB245SMS: token cache and authentication                               *)
(*                                                                         *)
(* The operators work on a record w of the client object's fields          *)
(* (token, token_expires_at, and the session's Authorization header and    *)
(* sysauth cookie) together with the content of its cache file, at clock   *)
(* time t, and return the record after the call with the call's result:    *)
(* [w, ret, raised, logins, replaced, stored, ttl, saved, loaded, reqs,     *)
(* modems, result].  raised: an exception left the call; logins: login     *)
(* requests issued; replaced: self.token was assigned from a login         *)
(* response; stored: a login stored an expiry, ttl being its               *)
(* expires_seconds; saved: the cache file was written; loaded: token and   *)
(* expiry were taken from the cache file; reqs: the token-bearing requests *)
(* issued (modem-status GET, send POST).                                   *)
(***************************************************************************)

\* "10 second buffer" of the validity checks
TokenMargin == 10

\* expires_seconds = 299  # Default expiration
DefaultExpires == 299

\* self.token_expires_at = None
NoExpiry == -1

Absent == "Absent"

\* no cache file
AbsentFile == [kind |-> "absent", token |-> Absent, exp_kind |-> "absent", exp |-> 0]

\* the JSON object save_token_to_cache writes
CacheEntry(tok, e) == [kind |-> "object", token |-> tok, exp_kind |-> "num", exp |-> e]

\* the client fields after __init__
NewClientFields ==
    [token |-> None, token_expires_at |-> NoExpiry,
     auth_header |-> None, sysauth_cookie |-> None]

World(c, f) ==
    [token |-> c.token, token_expires_at |-> c.token_expires_at,
     auth_header |-> c.auth_header, sysauth_cookie |-> c.sysauth_cookie, cache |-> f]

ClientOf(w) ==
    [token |-> w.token, token_expires_at |-> w.token_expires_at,
     auth_header |-> w.auth_header, sysauth_cookie |-> w.sysauth_cookie]

\* get_modems returned None
NoModems == [kind |-> "none", success |-> FALSE, data |-> <<>>]

\* no response dictionary of a submission
NoSendResult ==
    [kind |-> "none", success |-> FALSE, sms_used |-> 0, errors |-> <<>>,
     error |-> None]

Returns(w, ret) ==
    [w |-> w, ret |-> ret, raised |-> FALSE, logins |-> 0, replaced |-> FALSE,
     stored |-> FALSE, ttl |-> 0, saved |-> FALSE, loaded |-> FALSE,
     reqs |-> <<>>, modems |-> NoModems, result |-> NoSendResult]

Raises(w) == [Returns(w, FALSE) EXCEPT !.raised = TRUE]

\* the comparison "current_time < expires_at - 10"
NotExpired(t, expires_at) == t < expires_at - TokenMargin

\* the else branch of load_token_from_cache: self.token_cache_file.unlink()
ExpiredEntryFile(f) == AbsentFile

\* a load_token_from_cache that forgets the client's token with an expired entry
LoadForgettingOnExpiry(w, t) ==
    LET f == w.cache
    IN  IF f.kind = "absent" THEN Returns(w, FALSE)
        ELSE IF f.kind = "malformed" THEN Returns(w, FALSE)
        ELSE IF f.kind = "nonobject" THEN Raises(w)
        ELSE IF f.token = Absent \/ f.exp_kind = "absent" THEN Returns(w, FALSE)
        ELSE IF f.exp_kind = "bad" THEN Raises(w)
        ELSE IF NotExpired(t, f.exp)
        THEN [Returns([w EXCEPT !.token = f.token,
                                !.token_expires_at = f.exp,
                                !.auth_header = f.token,
                                !.sysauth_cookie = f.token], TRUE)
                EXCEPT !.loaded = TRUE]
        ELSE Returns([w EXCEPT !.cache = ExpiredEntryFile(f),
                               !.token = None, !.token_expires_at = 0,
                               !.auth_header = None, !.sysauth_cookie = None], FALSE)

load_token_from_cache(w, t) ==
    LET f == w.cache
    IN  IF f.kind = "absent" THEN Returns(w, FALSE)
        \* json.load fails: JSONDecodeError is caught
        ELSE IF f.kind = "malformed" THEN Returns(w, FALSE)
        \* valid JSON that is no object: cache_data.get raises AttributeError
        ELSE IF f.kind = "nonobject" THEN Raises(w)
        \* if not token or not expires_at: return False
        ELSE IF f.token = Absent \/ f.exp_kind = "absent" THEN Returns(w, FALSE)
        \* expires_at - 10 on a non-number raises TypeError
        ELSE IF f.exp_kind = "bad" THEN Raises(w)
        ELSE IF NotExpired(t, f.exp)
        THEN [Returns([w EXCEPT !.token = f.token,
                                !.token_expires_at = f.exp,
                                !.auth_header = f.token,
                                !.sysauth_cookie = f.token], TRUE)
                EXCEPT !.loaded = TRUE]
        ELSE Returns([w EXCEPT !.cache = ExpiredEntryFile(f)], FALSE)

\* a save whose expires_at leaves out the validity expires_seconds
SaveWithoutValidity(w, tok, expires_seconds, disk_ok, t) ==
    IF disk_ok THEN [w EXCEPT !.cache = CacheEntry(tok, t)]
    ELSE w

\* disk_ok = FALSE: open() raises IOError, which is ignored
save_token_to_cache(w, tok, expires_seconds, disk_ok, t) ==
    IF disk_ok THEN [w EXCEPT !.cache = CacheEntry(tok, t + expires_seconds)]
    ELSE w

is_token_valid(w, t) ==
    IF w.token = None THEN Returns(w, FALSE)
    ELSE IF w.token_expires_at # NoExpiry
    THEN Returns(w, NotExpired(t, w.token_expires_at))
    ELSE load_token_from_cache(w, t)

\* data.get("expires", 299) / data["data"].get("expires", 299)
ExpiresOf(resp) ==
    IF resp.exp_kind = "absent" THEN [kind |-> "num", n |-> DefaultExpires]
    ELSE [kind |-> resp.exp_kind, n |-> resp.exp]

DefaultExpiry == [kind |-> "num", n |-> DefaultExpires]

\* the if/elif chain of the token extraction: the value self.token has after it
\* (old: the value it had before) and expires_seconds
ExtractToken(resp, old) ==
    IF resp.data \in {"dict", "dict_token"}
    THEN IF resp.data = "dict_token"
         THEN [token |-> "tok_data", expires |-> ExpiresOf(resp)]
         ELSE [token |-> old, expires |-> DefaultExpiry]
    ELSE IF resp.top THEN [token |-> "tok_top", expires |-> ExpiresOf(resp)]
    ELSE IF resp.result THEN [token |-> "tok_result", expires |-> DefaultExpiry]
    ELSE IF resp.sysauth THEN [token |-> "tok_sysauth", expires |-> DefaultExpiry]
    ELSE IF resp.cookie THEN [token |-> "tok_cookie", expires |-> DefaultExpiry]
    ELSE [token |-> old, expires |-> DefaultExpiry]

\* the cache consultation without its "if not force"
AuthCacheLookupAlways(w, force, t) == load_token_from_cache(w, t)

\* the cache consultation that opens authenticate: "if not force: load..."
AuthCacheLookup(w, force, t) ==
    IF force THEN Returns(w, FALSE) ELSE load_token_from_cache(w, t)

\* the login request and the handling of its response (lines 360-443)
Login(w, resp, disk_ok, t) ==
    \* SSLError, RequestException (transport, HTTP status), JSONDecodeError
    IF resp.kind \in {"ssl_error", "request_error", "not_json"}
    THEN [Returns(w, FALSE) EXCEPT !.logins = 1]
    \* a JSON scalar: '"data" in data' raises TypeError
    ELSE IF resp.kind = "json_scalar" THEN [Raises(w) EXCEPT !.logins = 1]
    ELSE
        LET ex == ExtractToken(resp, w.token)
            w1 == [w EXCEPT !.token = ex.token]
            replaced == ExtractToken(resp, None).token # None
        IN  IF w1.token = None THEN [Returns(w1, FALSE) EXCEPT !.logins = 1]
            \* time.time() + expires_seconds on a non-number raises TypeError
            ELSE IF ex.expires.kind = "bad"
            THEN [Raises(w1) EXCEPT !.logins = 1, !.replaced = replaced]
            ELSE
                LET w2 == [w1 EXCEPT !.token_expires_at = t + ex.expires.n,
                                     !.auth_header = w1.token,
                                     !.sysauth_cookie = w1.token]
                    w3 == save_token_to_cache(w2, w2.token, ex.expires.n, disk_ok, t)
                IN  [Returns(w3, TRUE) EXCEPT !.logins = 1, !.replaced = replaced,
                                              !.stored = TRUE,
                                              !.ttl = ex.expires.n,
                                              !.saved = disk_ok]

\* "if self.load_token_from_cache(): return True", else the login
LoginUnlessCached(c, resp, disk_ok, t) ==
    IF c.raised \/ c.ret THEN c
    ELSE Login(c.w, resp, disk_ok, t)

authenticate(w, force, resp, disk_ok, t) ==
    LoginUnlessCached(AuthCacheLookup(w, force, t), resp, disk_ok, t)

\* the outcome of a call that made call a and then call b
After(a, b) ==
    [b EXCEPT !.logins = a.logins + b.logins,
              !.replaced = a.replaced \/ b.replaced,
              !.stored = a.stored \/ b.stored,
              !.ttl = IF b.stored THEN b.ttl ELSE a.ttl,
              !.saved = a.saved \/ b.saved,
              !.loaded = a.loaded \/ b.loaded,
              !.reqs = a.reqs \o b.reqs]

(***************************************************************************)
(* TRB245SMS: get_modems, _send_single_sms, send_sms                       *)
(***************************************************************************)

\* a request sent with the session's token at time t: what it carried
Request(kind, seg, w, t) ==
    [kind |-> kind, seg |-> seg, at |-> t,
     token |-> w.auth_header, expires_at |-> w.token_expires_at]

\* "if not self.authenticate(): ..." after is_token_valid ended with outcome v
AuthenticateUnlessValid(v, resp, disk_ok, t) ==
    IF v.raised \/ v.ret THEN v
    ELSE After(v, authenticate(v.w, FALSE, resp, disk_ok, t))

\* "if not self.is_token_valid(): if not self.authenticate(): ..."
\* ret: the caller may go on
EnsureToken(w, resp, disk_ok, t) ==
    AuthenticateUnlessValid(is_token_valid(w, t), resp, disk_ok, t)

\* the GET of get_modems after the token check ended with outcome a
ModemsRequest(a, modems_resp, t) ==
    IF a.raised \/ ~a.ret THEN a
    ELSE [a EXCEPT !.reqs = <<Request("modems", 0, a.w, t)>>,
                   !.modems = IF modems_resp.kind = "request_error"
                              THEN NoModems ELSE modems_resp]

get_modems(w, resp, disk_ok, modems_resp, t) ==
    ModemsRequest(EnsureToken(w, resp, disk_ok, t), modems_resp, t)

\* any(e.get("source") == "modem" for e in errors)
ModemError(result) == \E k \in 1..Len(result.errors) : result.errors[k].source = "modem"

\* the diagnostic modem listing after a modem error; g: the outcome of get_modems
ModemDiagnostic(g, post, send_resp) ==
    [g EXCEPT !.reqs = <<post>> \o g.reqs, !.result = send_resp,
              !.ret = FALSE, !.modems = NoModems]

\* a _send_single_sms that repeats a POST that failed in transport
SendSingleSmsRetrying(w, seg, send_resp, resp, disk_ok, modems_resp, t) ==
    IF send_resp.kind = "request_error"
    THEN [Returns(w, FALSE) EXCEPT !.reqs = <<Request("send", seg, w, t),
                                              Request("send", seg, w, t)>>,
              !.result = [kind |-> "request_error", success |-> FALSE,
                          sms_used |-> 0, errors |-> <<>>,
                          error |-> send_resp.error]]
    ELSE IF ~send_resp.success /\ ModemError(send_resp)
    THEN ModemDiagnostic(get_modems(w, resp, disk_ok, modems_resp, t),
                         Request("send", seg, w, t), send_resp)
    ELSE [Returns(w, send_resp.success) EXCEPT !.reqs = <<Request("send", seg, w, t)>>,
                                               !.result = send_resp]

\* POST of one message; seg: its index in a split message (0: unsplit)
send_single_sms(w, seg, send_resp, resp, disk_ok, modems_resp, t) ==
    IF send_resp.kind = "request_error"
    \* return {"success": False, "error": str(e)}
    THEN [Returns(w, FALSE) EXCEPT !.reqs = <<Request("send", seg, w, t)>>,
              !.result = [kind |-> "request_error", success |-> FALSE,
                          sms_used |-> 0, errors |-> <<>>,
                          error |-> send_resp.error]]
    ELSE IF ~send_resp.success /\ ModemError(send_resp)
    THEN ModemDiagnostic(get_modems(w, resp, disk_ok, modems_resp, t),
                         Request("send", seg, w, t), send_resp)
    ELSE [Returns(w, send_resp.success) EXCEPT !.reqs = <<Request("send", seg, w, t)>>,
                                               !.result = send_resp]

\* what send_sms returns; result: the dictionary of the submission it ended
\* with; error_msgs: the error texts joined into its "error"
NoSmsReturn ==
    [kind |-> "none", success |-> FALSE, parts_sent |-> 0, total_parts |-> 0,
     sms_used |-> 0, parts |-> 0, message_length |-> 0, failed_part |-> 0,
     error_msgs |-> <<>>, result |-> NoSendResult, posted |-> <<>>]

\* "; ".join([e.get("error", "Unknown error") for e in errors]), unjoined
ErrorMsgs(result) == [k \in 1..Len(result.errors) |-> result.errors[k].error]

\* no send_sms call in progress
NoSend == [parts |-> <<>>, idx |-> 0, total_sms_used |-> 0, message_length |-> 0,
           posted |-> <<>>]

\* a turn of send_sms: [out: the outcome of its calls, send: the loop state after
\* it, returned: send_sms returned, hangs: it never will, sms: what it returned]
Turn(out, s, returned, sms) ==
    [out |-> out, send |-> s, returned |-> returned, hangs |-> FALSE, sms |-> sms]

\* parts_sent counting the failed part as well
PartsSentThrough(i) == i

\* "parts_sent": i - 1
PartsSentBefore(i) == i - 1

\* a total that is the sms_used of the part just sent
SmsUsedOfLastPart(s, r) == r.result.sms_used

\* "total_sms_used += sms_used", r being the outcome of the part just sent
TotalSmsUsed(s, r) == s.total_sms_used + r.result.sms_used

\* "if not part_result.get('success')" and what follows, r being the outcome of
\* _send_single_sms for part i = s.idx
PartSubmitted(s, r) ==
    IF r.raised THEN Turn(r, NoSend, TRUE, NoSmsReturn)
    ELSE IF ~r.result.success
    THEN Turn(r, NoSend, TRUE,
              [NoSmsReturn EXCEPT !.kind = "part_failed",
                   !.failed_part = s.idx, !.error_msgs = ErrorMsgs(r.result),
                   !.result = r.result,
                   !.parts_sent = PartsSentBefore(s.idx),
                   !.total_parts = Len(s.parts),
                   !.posted = Append(s.posted, [seg |-> s.idx, success |-> FALSE,
                                                sms_used |-> 0])])
    ELSE IF s.idx < Len(s.parts)
    THEN Turn(r, [s EXCEPT !.idx = s.idx + 1,
                           !.total_sms_used = TotalSmsUsed(s, r),
                           !.posted = Append(s.posted,
                                             [seg |-> s.idx, success |-> TRUE,
                                              sms_used |-> r.result.sms_used])],
              FALSE, NoSmsReturn)
    ELSE Turn(r, NoSend, TRUE,
              [NoSmsReturn EXCEPT !.kind = "all_sent", !.success = TRUE,
                   !.sms_used = TotalSmsUsed(s, r),
                   !.parts = Len(s.parts), !.message_length = s.message_length,
                   !.posted = Append(s.posted,
                                     [seg |-> s.idx, success |-> TRUE,
                                      sms_used |-> r.result.sms_used])])

\* One turn of "for i, part in enumerate(message_parts, 1)" for i = s.idx
SendPartTurn(w, s, send_resp, resp, disk_ok, modems_resp, t) ==
    PartSubmitted(s, send_single_sms(w, s.idx, send_resp, resp, disk_ok,
                                     modems_resp, t))

\* the first turn p of the loop, after the token check with outcome a
FirstTurn(a, p) == [p EXCEPT !.out = After(a, p.out)]

\* the loop over message_parts = sp.parts starts
SendSegments(a, sp, msg, send_resp, resp, disk_ok, modems_resp, t) ==
    IF sp.diverges
    THEN [Turn(a, NoSend, FALSE, NoSmsReturn) EXCEPT !.hangs = TRUE]
    ELSE FirstTurn(a, SendPartTurn(a.w, [parts |-> sp.parts, idx |-> 1,
                                         total_sms_used |-> 0,
                                         message_length |-> Len(msg),
                                         posted |-> <<>>],
                                   send_resp, resp, disk_ok, modems_resp, t))

\* "return self._send_single_sms(number, message, modem)", r being its outcome
SendUnsplit(a, r) ==
    Turn(After(a, r), NoSend, TRUE,
         IF r.raised THEN NoSmsReturn
         ELSE [NoSmsReturn EXCEPT !.kind = "single",
                   !.success = r.result.success,
                   !.sms_used = r.result.sms_used,
                   !.error_msgs = ErrorMsgs(r.result),
                   !.result = r.result,
                   !.posted = <<[seg |-> 0, success |-> r.result.success,
                                  sms_used |-> r.result.sms_used]>>])

\* send_sms after its token check ended with outcome a
SendAuthenticated(a, msg, limit, split, send_resp, resp, disk_ok, modems_resp, t) ==
    IF a.raised THEN Turn(a, NoSend, TRUE, NoSmsReturn)
    \* return {"success": False, "error": "Authentication failed"}
    ELSE IF ~a.ret
    THEN Turn(a, NoSend, TRUE, [NoSmsReturn EXCEPT !.kind = "auth_failed"])
    ELSE IF split /\ Len(msg) > limit
    THEN SendSegments(a, split_sms_message(msg, limit, TRUE), msg, send_resp, resp,
                      disk_ok, modems_resp, t)
    ELSE SendUnsplit(a, send_single_sms(a.w, 0, send_resp, resp, disk_ok,
                                        modems_resp, t))

\* send_sms up to and including its first submission
\* split: the argument split_long_messages
send_sms_begin(w, msg, limit, split, send_resp, resp, disk_ok, modems_resp, t) ==
    SendAuthenticated(EnsureToken(w, resp, disk_ok, t), msg, limit, split, send_resp,
                      resp, disk_ok, modems_resp, t)

(***************************************************************************)
(* normalize_phone_number (send_sms.py) and decode_url_parameter           *)
(* (sms_api.py)                                                            *)
(***************************************************************************)

Digits == {"0", "1", "2", "3", "4", "5", "6", "7", "8", "9"}

\* the characters normalize_phone_number removes
FormattingCharacters == {" ", "-", "(", ")", "/", "."}

\* .replace(" ", "").replace("-", "")...replace(".", "")
WithoutFormatting(phone_number) ==
    SelectSeq(phone_number, LAMBDA c : c \notin FormattingCharacters)

\* re.match(r'^\+(\d{1,3})(.*)$', normalized): a digit follows the "+", and no
\* line break stands before the last character ("." matches none, "$" matches
\* before one that ends the string)
CountryCodeMatches(normalized) ==
    /\ Len(normalized) >= 2
    /\ normalized[2] \in Digits
    /\ \A i \in 2..(Len(normalized) - 1) : normalized[i] # "\n"

\* "00" + country_code + rest
WithInternationalPrefix(normalized) ==
    <<"0", "0">> \o (IF normalized[Len(normalized)] = "\n"
                     THEN SubSeq(normalized, 2, Len(normalized) - 1)
                     ELSE Tail(normalized))

\* normalize_phone_number after the formatting characters are removed
PlusConverted(normalized) ==
    IF normalized # <<>> /\ Head(normalized) = "+"
    THEN IF CountryCodeMatches(normalized) THEN WithInternationalPrefix(normalized)
         ELSE Tail(normalized)
    ELSE normalized

\* normalize_phone_number with "+" dropped and nothing put in its place
NormalizeDroppingPlus(phone_number) ==
    SelectSeq(WithoutFormatting(phone_number), LAMBDA c : c # "+")

normalize_phone_number(phone_number) ==
    IF phone_number = <<>> THEN phone_number
    ELSE PlusConverted(WithoutFormatting(phone_number))

HexDigits == Digits \cup {"A", "B", "C", "D", "E", "F", "a", "b", "c", "d", "e", "f"}

\* re.search(r'%[0-9A-Fa-f]{2}', param)
HasPercentEscape(param) ==
    \E i \in 1..(Len(param) - 2) :
        param[i] = "%" /\ param[i + 1] \in HexDigits /\ param[i + 2] \in HexDigits

\* the character of the escape %hi lo, for the escapes of space, "+" and "-";
\* "?" stands for the character of any other escape
PercentDecoded(hi, lo) ==
    IF hi = "2" /\ lo = "0" THEN " "
    ELSE IF hi = "2" /\ lo \in {"B", "b"} THEN "+"
    ELSE IF hi = "2" /\ lo \in {"D", "d"} THEN "-"
    ELSE "?"

\* urllib.parse.unquote(param, encoding='utf-8')
RECURSIVE Unquote(_)
Unquote(param) ==
    IF param = <<>> THEN <<>>
    ELSE IF Head(param) = "%" /\ Len(param) >= 3 /\ param[2] \in HexDigits
            /\ param[3] \in HexDigits
    THEN <<PercentDecoded(param[2], param[3])>> \o Unquote(SubSeq(param, 4, Len(param)))
    ELSE <<Head(param)>> \o Unquote(Tail(param))

decode_url_parameter(param) ==
    IF param = <<>> THEN <<>>
    ELSE IF HasPercentEscape(param) THEN Unquote(param)
    ELSE param

(***************************************************************************)
(* The modem selection of the gateway (sms_api.py) and of main             *)
(***************************************************************************)

\* the hardcoded fallback modem
FallbackModem == "1-1.4"

\* "modems and modems.get('success') and 'data' in modems"
ModemsRetrieved(modems) == modems.kind = "json" /\ modems.success

\* modem_info.get("id", "1-1.4")
ModemIdOf(modem_info) == IF modem_info.id = Absent THEN FallbackModem ELSE modem_info.id

\* the positions of the modems flagged primary
PrimaryPositions(data) == {k \in 1..Len(data) : data[k].primary}

\* "for modem_info in modems['data']: if modem_info.get('primary'): ... break",
\* the selection starting out as start
FirstPrimaryOr(data, start) ==
    IF PrimaryPositions(data) = {} THEN start
    ELSE ModemIdOf(data[CHOOSE k \in PrimaryPositions(data) :
                                \A j \in PrimaryPositions(data) : k <= j])

\* 'if modem_id == "1-1.4" and modems["data"]: modem_id = modems["data"][0]...'
GatewayFirstUnlessChosen(data, modem_id) ==
    IF modem_id = FallbackModem /\ data # <<>> THEN ModemIdOf(data[1]) ELSE modem_id

\* the modem the gateway sends through (sms_api.py, lines 186-199)
GatewayModem(modems) ==
    IF ModemsRetrieved(modems)
    THEN GatewayFirstUnlessChosen(modems.data, FirstPrimaryOr(modems.data, FallbackModem))
    ELSE FallbackModem

\* 'if not args.modem and modems["data"]: args.modem = modems["data"][0]...'
MainFirstUnlessChosen(data, modem) ==
    IF modem = None /\ data # <<>> THEN ModemIdOf(data[1]) ELSE modem

\* the modem main sends through when none is given on the command line
\* (send_sms.py, lines 805-822); None: args.modem stays None
MainModem(modems) ==
    IF ModemsRetrieved(modems)
    THEN MainFirstUnlessChosen(modems.data, FirstPrimaryOr(modems.data, None))
    ELSE FallbackModem

\* _send_single_sms: 'if not modem: modem = "1-1.4"'
ModemSentThrough(modem) == IF modem = None THEN FallbackModem ELSE modem

(***************************************************************************)
(* The gateway: the handler of GET / (sms_api.py), stage by stage          *)
(***************************************************************************)

NoCaller == [username |-> None, password |-> None]

\* config.get("router", {}) without url, username and password
NoConfig == [url |-> None, username |-> None, password |-> None]

NoDetail == [text |-> None, msgs |-> <<>>]

NoContent ==
    [success |-> FALSE, sms_used |-> 0, phone_number |-> <<>>, message_length |-> 0,
     parts |-> 0]

\* the handler at rest. stage: "idle", "authenticate", "modems", "send",
\* "sending", "hung", "done"; caller: the username and password of the request;
\* router_user, router_password: the credentials of the TRB245SMS object;
\* logins: the credentials of the login requests issued; reqs: the modem
\* queries and submissions issued; auth_failed: an authenticate call of the
\* request returned False; router_errors: the errors list of the submission
\* the router reported as failed; segments: 1 or the number of segments of the
\* message; status, detail, content: the response
NoGateway ==
    [stage |-> "idle", caller |-> NoCaller, config |-> NoConfig,
     phone_number |-> <<>>, message |-> <<>>,
     router_user |-> None, router_password |-> None, modem_id |-> None,
     logins |-> <<>>, reqs |-> <<>>, auth_failed |-> FALSE,
     router_errors |-> <<>>, segments |-> 0,
     status |-> 0, detail |-> NoDetail, content |-> NoContent]

\* raise HTTPException(status_code=status, detail=text + msgs)
GwRaised(g, status, text, msgs) ==
    [g EXCEPT !.stage = "done", !.status = status,
              !.detail = [text |-> text, msgs |-> msgs]]

\* the handler with the client credentials of the caller instead of the
\* configuration's
GwClientOfCaller(g, caller, config) ==
    [g EXCEPT !.stage = "authenticate",
              !.router_user = caller.username,
              !.router_password = caller.password]

\* sms = TRB245SMS(router_url, router_user, router_password)
GwClient(g, caller, config) ==
    [g EXCEPT !.stage = "authenticate",
              !.router_user = config.username,
              !.router_password = config.password]

\* the checks of the configuration (lines 150-172)
GwConfigured(g, caller, config) ==
    IF config.url = None \/ config.username = None \/ config.password = None
    THEN GwRaised(g, 500, "Router configuration missing. Please configure config.yaml.",
                  <<>>)
    ELSE GwClient(g, caller, config)

\* the handler's record once both parameters are decoded (lines 119-126)
GwDecoded(caller, config, phone_number, msg) ==
    [NoGateway EXCEPT !.caller = caller, !.config = config,
                      !.phone_number = phone_number, !.message = msg]

\* a handler that constructs the router client whatever the parameters are
GwUnchecked(caller, config, phone_number, msg) ==
    GwConfigured(GwDecoded(caller, config, phone_number, msg), caller, config)

\* the validation of the decoded parameters (lines 132-144)
GwChecked(caller, config, phone_number, msg) ==
    IF phone_number = <<>>
    THEN GwRaised(GwDecoded(caller, config, phone_number, msg), 400,
                  "Phone number (number) is required and must not be empty", <<>>)
    ELSE IF msg = <<>>
    THEN GwRaised(GwDecoded(caller, config, phone_number, msg), 400,
                  "Message (text) is required and must not be empty", <<>>)
    ELSE GwConfigured(GwDecoded(caller, config, phone_number, msg), caller, config)

\* the handler up to the construction of the router client (lines 116-172)
GwValidated(caller, number, text, config) ==
    GwChecked(caller, config, normalize_phone_number(decode_url_parameter(number)),
              decode_url_parameter(text))

\* the router calls of outcome o, added to the handler's record
GwRouterCalls(g, o) ==
    [g EXCEPT !.logins = @ \o [k \in 1..o.logins |->
                                  [username |-> g.router_user,
                                   password |-> g.router_password]],
              !.reqs = @ \o [k \in 1..Len(o.reqs) |->
                                [kind |-> o.reqs[k].kind, seg |-> o.reqs[k].seg,
                                 modem |-> IF o.reqs[k].kind = "send"
                                           THEN ModemSentThrough(g.modem_id)
                                           ELSE None]]]

\* "except Exception as e: raise HTTPException(status_code=500, ...)"
GwInternalError(g) == GwRaised(g, 500, "Internal error: ", <<>>)

\* "if not sms.authenticate(): raise HTTPException(status_code=401, ...)", o
\* being the outcome of authenticate (lines 176-181)
GwAuthenticated(g, o) ==
    IF o.raised THEN GwInternalError(GwRouterCalls(g, o))
    ELSE IF ~o.ret
    THEN GwRaised([GwRouterCalls(g, o) EXCEPT !.auth_failed = TRUE], 401,
                  "Authentication with router failed", <<>>)
    ELSE [GwRouterCalls(g, o) EXCEPT !.stage = "modems"]

\* the modem selection, o being the outcome of get_modems (lines 186-199)
GwModemSelected(g, o) ==
    IF o.raised THEN GwInternalError(GwRouterCalls(g, o))
    ELSE [GwRouterCalls(g, o) EXCEPT !.stage = "send",
                                     !.auth_failed = @ \/ ~o.ret,
                                     !.modem_id = GatewayModem(o.modems)]

\* result.get("errors", []) of what send_sms returned, as error texts: only
\* the dictionary of an unsplit submission, which is the router's, has the key
GwErrorTexts(sms) ==
    IF sms.kind = "single" THEN ErrorMsgs(sms.result) ELSE <<>>

\* the errors list of the submission the router reported as failed
RouterReportedErrors(sms) ==
    IF sms.kind \in {"single", "part_failed"} /\ sms.result.kind = "json"
       /\ ~sms.result.success
    THEN sms.result.errors ELSE <<>>

\* the response to the return value sms of send_sms (lines 219-257)
GwAnswered(g, sms) ==
    IF sms.success
    THEN [g EXCEPT !.stage = "done", !.status = 200,
                   !.content = [success |-> TRUE, sms_used |-> sms.sms_used,
                                phone_number |-> g.phone_number,
                                message_length |-> Len(g.message),
                                parts |-> IF sms.kind = "all_sent" THEN sms.parts
                                          ELSE 1]]
    ELSE GwRaised([g EXCEPT !.router_errors = RouterReportedErrors(sms)], 422,
                  "SMS sending failed (error from router): ", GwErrorTexts(sms))

\* the handler after a turn p of send_sms, its router calls recorded in g
GwSendTurned(g, p) ==
    IF p.hangs THEN [g EXCEPT !.stage = "hung"]
    ELSE IF p.out.raised THEN GwInternalError(g)
    ELSE IF ~p.returned
    THEN [g EXCEPT !.stage = "sending", !.segments = Len(p.send.parts)]
    ELSE GwAnswered([g EXCEPT !.auth_failed = @ \/ (p.sms.kind = "auth_failed"),
                              !.segments = IF p.sms.kind = "single" THEN 1
                                           ELSE IF p.sms.kind = "part_failed"
                                           THEN p.sms.total_parts
                                           ELSE p.sms.parts],
                    p.sms)

\* "result = sms.send_sms(phone_number, message, modem_id)" and the response,
\* up to the end of the turn p of send_sms
GwSendTurn(g, p) == GwSendTurned(GwRouterCalls(g, p.out), p)

(***************************************************************************)
(* Processes sharing the cache file: save_token_to_cache and               *)
(* load_token_from_cache, statement by statement                           *)
(***************************************************************************)

\* no file: no directory entry (inode 0), `created` inodes so far
NoDisk == [inode |-> 0, bytes |-> <<>>, created |-> 0]

\* cache_data as far as load_token_from_cache reads it
NoEntry == [token |-> <<>>, expires_at |-> 0]

\* json.dump(cache_data, f): the text of an entry
JsonDump(entry) ==
    <<"{">> \o entry.token \o <<",">> \o IntToStr(entry.expires_at) \o <<"}">>

\* the positions of a character in a text
Positions(bytes, c) == {k \in 1..Len(bytes) : bytes[k] = c}

DigitValue(c) == CHOOSE n \in 0..9 : IntToStr(n) = <<c>>

RECURSIVE StrToInt(_)
StrToInt(d) ==
    IF d = <<>> THEN 0
    ELSE 10 * StrToInt(SubSeq(d, 1, Len(d) - 1)) + DigitValue(d[Len(d)])

\* json.load raises JSONDecodeError
Malformed == [ok |-> FALSE, token |-> <<>>, expires_at |-> 0]

\* the text is one object and nothing else: empty text, an unfinished
\* object and data after the closing brace are JSONDecodeErrors
WellFormed(bytes, comma) ==
    /\ Len(bytes) >= 3
    /\ Positions(bytes, "{") = {1}
    /\ Positions(bytes, "}") = {Len(bytes)}
    /\ Positions(bytes, ",") = {comma}
    /\ comma + 1 < Len(bytes)
    /\ \A k \in (comma + 1)..(Len(bytes) - 1) : bytes[k] \in Digits

\* json.load(f), cache_data.get("token"), cache_data.get("expires_at")
JsonLoad(bytes) ==
    IF \E comma \in 2..Len(bytes) : WellFormed(bytes, comma)
    THEN [ok |-> TRUE,
          token |-> SubSeq(bytes, 2, SetMax(Positions(bytes, ",")) - 1),
          expires_at |-> StrToInt(SubSeq(bytes, SetMax(Positions(bytes, ",")) + 1,
                                         Len(bytes) - 1))]
    ELSE Malformed

\* open(self.token_cache_file, 'w'): creates the file or truncates it
OpenForWriting(d) ==
    IF d.inode = 0
    THEN [inode |-> d.created + 1, bytes |-> <<>>, created |-> d.created + 1]
    ELSE [d EXCEPT !.bytes = <<>>]

\* the one write at offset 0 when the with-block closes the file; it is lost
\* when the file was unlinked since the open
WriteAtStart(d, fd, data) ==
    IF d.inode = fd
    THEN [d EXCEPT !.bytes = data \o SubSeq(d.bytes, Len(data) + 1, Len(d.bytes))]
    ELSE d

\* self.token_cache_file.unlink()
Unlink(d) == [d EXCEPT !.inode = 0, !.bytes = <<>>]

\* a process outside save_token_to_cache and load_token_from_cache
NoProc ==
    [pc |-> "idle", fd |-> 0, entry |-> NoEntry, data |-> Malformed,
     result |-> "none", raised |-> FALSE, at |-> 0, after |-> 0,
     token |-> <<>>, token_expires_at |-> NoExpiry, ops |-> 0]

\* load_token_from_cache returns False
LoadMissed(proc, t) ==
    [proc EXCEPT !.pc = "idle", !.result = "miss", !.at = t,
                 !.data = Malformed, !.ops = proc.ops + 1]

\* load_token_from_cache returns True: token and expiry of the entry read
LoadHit(proc, t) ==
    [proc EXCEPT !.pc = "idle", !.result = "hit", !.at = t,
                 !.token = proc.data.token,
                 !.token_expires_at = proc.data.expires_at,
                 !.data = Malformed, !.ops = proc.ops + 1]

\* with open(...) as f: cache_data = json.load(f), and the two .get()
LoadParsed(proc, d, t) ==
    IF d.inode = 0 THEN LoadMissed(proc, t)
    ELSE IF ~JsonLoad(d.bytes).ok THEN LoadMissed(proc, t)
    ELSE IF JsonLoad(d.bytes).token = <<>> \/ JsonLoad(d.bytes).expires_at = 0
         THEN LoadMissed(proc, t)
    ELSE [proc EXCEPT !.pc = "parsed", !.data = JsonLoad(d.bytes)]

\* the processes, and how many saves and loads each one makes
NumProcs == 2

MaxOps == 2

Procs == 1..NumProcs

\* the token the router issued to a process
TokenOf(p) == [k \in 1..p |-> "t"]

\* no process of RaceSpec
RaceOff ==
    /\ disk = NoDisk
    /\ procs = [p \in Procs |-> NoProc]
    /\ saves = [entries |-> {}, seq |-> 0, last |-> NoEntry]

(***************************************************************************)
(* Bounded inputs of the pure functions                                    *)
(***************************************************************************)

\* a letter, a word separator, a punctuation mark
Alphabet == {"a", " ", "."}

\* every message over Alphabet up to this length is an input
MaxMsgLen == 7

\* max_length ranges over 1..MaxSegLen
MaxSegLen == 9

\* long inputs are repetitions of a short pattern, up to this many repetitions
MaxReps == 14

MinReps == 10

StringsOfLen(n) == [1..n -> Alphabet]

RECURSIVE Repeat(_, _)
Repeat(pattern, n) == IF n = 0 THEN <<>> ELSE pattern \o Repeat(pattern, n - 1)

Patterns == UNION {StringsOfLen(n) : n \in 1..2}

\* a long run with a short, freely chosen tail
LongMessages ==
    {Repeat(p, n) \o t : p \in Patterns, n \in MinReps..MaxReps,
                        t \in UNION {StringsOfLen(k) : k \in 0..1}}

Messages == (UNION {StringsOfLen(n) : n \in 0..MaxMsgLen}) \cup LongMessages

(***************************************************************************)
(* Bounded inputs of the router client                                     *)
(***************************************************************************)

\* the clock advances at most this often
MaxTicks == 2

\* timeout=30 of the requests
RequestTimeout == 30

\* the clock advances by one second, or by one second less than the time a
\* token of the default validity stays usable
TickSteps == {1, DefaultExpires - TokenMargin - 1}

\* a validity the router may announce that is shorter than the safety margin
ShortExpires == 5

ExpiresFields ==
    {[exp_kind |-> "absent", exp |-> 0], [exp_kind |-> "num", exp |-> ShortExpires],
     [exp_kind |-> "bad", exp |-> 0]}

\* a login attempt that ends in an exception of requests, or in a body that is
\* no JSON object
FailedLogins ==
    {[kind |-> k, data |-> "absent", top |-> FALSE, result |-> FALSE,
      sysauth |-> FALSE, cookie |-> FALSE, exp_kind |-> "absent", exp |-> 0] :
        k \in {"ssl_error", "request_error", "not_json", "json_scalar"}}

\* a JSON object with any combination of the token shapes; each shape carries
\* a token of its own: "tok_data" (data.token), "tok_top" (token), "tok_result"
\* (result), "tok_sysauth" (cookie sysauth), "tok_cookie" (a cookie named
\* *auth* / *token*). data: no "data" key, a non-dict "data", a dict without
\* "token", a dict with "token". The "expires" field sits beside the token
\* of data.token or token, the two shapes it is read with.
JsonLogins ==
    {r \in [kind : {"json"}, data : {"absent", "nondict", "dict", "dict_token"},
            top : BOOLEAN, result : BOOLEAN, sysauth : BOOLEAN, cookie : BOOLEAN,
            exp_kind : {"absent", "num", "bad"}, exp : {0, ShortExpires}] :
        /\ \E e \in ExpiresFields : e.exp_kind = r.exp_kind /\ e.exp = r.exp
        /\ r.exp_kind # "absent" => r.data = "dict_token" \/ r.top}

LoginResponses == FailedLogins \cup JsonLogins

\* the login responses of Spec: a failed request, a JSON object without any
\* token, and the documented {"data": {"token": ..., "expires": ...}} with the
\* expires field absent (the default validity) or not a number
SimpleLogins ==
    {r \in LoginResponses :
        \/ r.kind = "request_error"
        \/ /\ r.kind = "json"
           /\ ~r.top /\ ~r.result /\ ~r.sysauth /\ ~r.cookie
           /\ \/ r.data = "dict_token" /\ r.exp_kind \in {"absent", "bad"}
              \/ r.data = "absent" /\ r.exp_kind = "absent"}

\* stands for the response of a login that is not issued
NoLogin == CHOOSE r \in FailedLogins : r.kind = "request_error"

\* what another process or a broken write may leave in the cache file at time t
ExternalFiles(t) ==
    {[kind |-> "malformed", token |-> Absent, exp_kind |-> "absent", exp |-> 0],
     [kind |-> "nonobject", token |-> Absent, exp_kind |-> "absent", exp |-> 0],
     [kind |-> "object", token |-> "tok_ext", exp_kind |-> "bad", exp |-> 0],
     [kind |-> "object", token |-> "tok_ext", exp_kind |-> "absent", exp |-> 0]}
    \cup {[kind |-> "object", token |-> tk, exp_kind |-> "num", exp |-> t + e] :
             tk \in {Absent, "tok_ext"}, e \in {ShortExpires, DefaultExpires}}

ModemResponses ==
    {[kind |-> "request_error", success |-> FALSE, data |-> <<>>],
     [kind |-> "json", success |-> TRUE, data |-> <<>>]}

\* stands for the response of a modem-status GET that is not issued
NoModemsResponse == CHOOSE r \in ModemResponses : r.kind = "request_error"

\* error: str(e) of a request that failed in transport
SendResponses ==
    {[kind |-> "request_error", success |-> FALSE, sms_used |-> 0, errors |-> <<>>,
      error |-> "connection timed out"],
     [kind |-> "json", success |-> FALSE, sms_used |-> 0,
      errors |-> <<[error |-> "modem not found", source |-> "modem"]>>,
      error |-> None],
     [kind |-> "json", success |-> FALSE, sms_used |-> 0,
      errors |-> <<[error |-> "invalid number", source |-> "number"]>>,
      error |-> None]}
    \cup {[kind |-> "json", success |-> TRUE, sms_used |-> u, errors |-> <<>>,
            error |-> None] : u \in {1, 2}}

\* max_sms_length of the send_sms calls
SendMaxLen == 8

\* the send_sms calls: a message that needs no split, one that splits into
\* three segments, and that one with split_long_messages=False
SendCalls ==
    {[msg |-> Repeat(<<"a">>, 2), split |-> TRUE],
     [msg |-> Repeat(<<"a">>, SendMaxLen + 1), split |-> TRUE],
     [msg |-> Repeat(<<"a">>, SendMaxLen + 1), split |-> FALSE]}

NoResult == [parts |-> <<>>, diverges |-> FALSE]

\* the token was issued by no login of known validity (none is held, it was
\* written from outside, or its "expires" was no number)
NoIssue == [at |-> -1, ttl |-> 0]

\* no save_token_to_cache call has completed since the cache file was last
\* written from outside
NoSave == [at |-> -1, ttl |-> 0, token |-> None, wrote |-> FALSE]

NothingIssued == [mem |-> NoIssue, file |-> NoIssue, save |-> NoSave]

\* when and for how long the router issued the token in memory, after a call
\* with outcome o at time t
IssuedInMemory(o, t) ==
    IF o.replaced THEN (IF o.stored THEN [at |-> t, ttl |-> o.ttl] ELSE NoIssue)
    ELSE IF o.loaded THEN issued.file
    ELSE issued.mem

\* issued after a call with outcome o at time t
IssuedAfter(o, t) ==
    [mem  |-> IssuedInMemory(o, t),
     file |-> IF o.saved THEN IssuedInMemory(o, t)
              ELSE IF o.w.cache.kind = "absent" THEN NoIssue
              ELSE issued.file,
     \* the call save_token_to_cache(token, ttl) that completed last, at time
     \* at; wrote: it wrote the file (no IOError)
     save |-> IF o.stored
              THEN [at |-> t, ttl |-> o.ttl, token |-> o.w.token, wrote |-> o.saved]
              ELSE issued.save]

\* the safety margin of the token's validity, in seconds
SafetyMargin == 10

\* what a call found in the cache file at time t: the file's kind, whether it
\* holds a token, the kind of its expires_at, and, for a number, whether t has
\* reached expires_at - SafetyMargin
FileSummary(f, t) ==
    [kind |-> f.kind, has_token |-> (f.token # Absent), exp_kind |-> f.exp_kind,
     expired |-> (f.exp_kind = "num" /\ t >= f.exp - SafetyMargin)]

\* the record of "no call has just ended"
NoCall ==
    [op |-> "none", force |-> FALSE, ret |-> FALSE, raised |-> FALSE, logins |-> 0,
     stored |-> FALSE, saved |-> FALSE, loaded |-> FALSE, want |-> None,
     reqs |-> <<>>, had_token |-> FALSE, changed |-> FALSE, token_changed |-> FALSE,
     pre_file |-> FileSummary(AbsentFile, 0), pre_issued |-> NothingIssued,
     modems |-> NoModems, sms |-> NoSmsReturn]

\* the token of the highest-priority shape present in a login response
HighestPriorityToken(resp) ==
    IF resp.kind # "json" THEN None
    ELSE IF resp.data = "dict_token" THEN "tok_data"
    ELSE IF resp.top THEN "tok_top"
    ELSE IF resp.result THEN "tok_result"
    ELSE IF resp.sysauth THEN "tok_sysauth"
    ELSE IF resp.cookie THEN "tok_cookie"
    ELSE None

\* the record of a call that just ended with outcome o
Ended(op, force, o, resp) ==
    [NoCall EXCEPT !.op = op, !.force = force, !.ret = o.ret, !.raised = o.raised,
                   !.logins = o.logins, !.stored = o.stored, !.saved = o.saved,
                   !.loaded = o.loaded,
                   !.want = IF o.logins > 0 THEN HighestPriorityToken(resp) ELSE None,
                   !.reqs = o.reqs, !.had_token = (client.token # None),
                   !.changed = (ClientOf(o.w) # client),
                   !.token_changed = (o.w.token # client.token),
                   !.pre_issued = issued,
                   !.pre_file = FileSummary(cache, now), !.modems = o.modems]

ClientInit ==
    /\ now = 0
    /\ ticks = 0
    /\ client = NewClientFields
    /\ cache = AbsentFile
    /\ pc = "idle"
    /\ send = NoSend
    /\ last = NoCall
    /\ issued = NothingIssued

SplitOff ==
    /\ message = <<>>
    /\ max_length = 1
    /\ add_numbering = FALSE
    /\ split_pc = "off"
    /\ split_out = NoResult

\* no TRB245SMS(...) call of CacheNameSpec
NamesOff ==
    /\ router_urls = <<>>
    /\ token_cache_files = <<>>

\* no modem selection of ModemSpec
SelectionOff == selection = [modems |-> NoModems, by |-> "none", modem_id |-> None]

\* no request of GatewaySpec
GatewayOff == gw = NoGateway /\ gw_twin = NoGateway

\* split_at_word_boundary has not been called
NoBoundary == [called |-> FALSE, first |-> <<>>, rest |-> <<>>]

\* the segments' bodies have not been split again
NoResplit == [called |-> FALSE, parts |-> <<>>, diverges |-> FALSE]

\* no call of normalize_phone_number
NoPhone == [pc |-> "off", input |-> <<>>, output |-> <<>>, again |-> <<>>]

PureOff == boundary = NoBoundary /\ resplit = NoResplit /\ phone = NoPhone

\* the other specifications' variables at rest
OthersOff == NamesOff /\ SelectionOff /\ GatewayOff /\ RaceOff /\ PureOff

StartsWith(text, prefix) ==
    Len(text) >= Len(prefix) /\ SubSeq(text, 1, Len(prefix)) = prefix

\* the prefix "k/N: " a claim expects on segment k of N
ExpectedPrefix(k, n) == IntToStr(k) \o <<"/">> \o IntToStr(n) \o <<":", " ">>

\* a segment's body: the segment without its prefix
BodyOf(segment, k, n) ==
    IF StartsWith(segment, ExpectedPrefix(k, n))
    THEN SubSeq(segment, Len(ExpectedPrefix(k, n)) + 1, Len(segment))
    ELSE segment

RECURSIVE Concat(_)
Concat(seqs) == IF seqs = <<>> THEN <<>> ELSE Head(seqs) \o Concat(Tail(seqs))

SplitInit ==
    /\ OthersOff
    /\ message \in Messages
    /\ max_length \in 1..MaxSegLen
    /\ add_numbering \in BOOLEAN
    /\ split_pc = "input"
    /\ split_out = NoResult
    /\ ClientInit

\* the call split_sms_message(message, max_length, add_numbering)
CallSplit ==
    /\ split_pc = "input"
    /\ split_out' = split_sms_message(message, max_length, add_numbering)
    /\ split_pc' = "returned"
    /\ UNCHANGED <<message, max_length, add_numbering>>
    /\ UNCHANGED clientVars
    /\ UNCHANGED otherVars

\* the call split_at_word_boundary(message, max_length) on the same input
CallSplitAtWordBoundary ==
    /\ split_pc = "input"
    /\ boundary' = [called |-> TRUE,
                    first |-> split_at_word_boundary(message, max_length)[1],
                    rest |-> split_at_word_boundary(message, max_length)[2]]
    /\ split_pc' = "boundary"
    /\ UNCHANGED <<message, max_length, add_numbering, split_out>>
    /\ UNCHANGED clientVars
    /\ UNCHANGED <<nameVars, selection, gwVars, raceVars, resplit, phone>>

\* the bodies of the returned segments, concatenated in their order
BodiesOf(parts) ==
    Concat([k \in 1..Len(parts) |-> BodyOf(parts[k], k, Len(parts))])

\* the call split_sms_message(bodies, max_length, add_numbering) on the bodies
\* of the segments the first call returned
CallSplitAgain ==
    /\ split_pc = "returned"
    /\ ~split_out.diverges
    /\ ~resplit.called
    /\ resplit' = [called |-> TRUE,
                   parts |-> split_sms_message(BodiesOf(split_out.parts), max_length,
                                               add_numbering).parts,
                   diverges |-> split_sms_message(BodiesOf(split_out.parts), max_length,
                                                  add_numbering).diverges]
    /\ UNCHANGED splitVars
    /\ UNCHANGED clientVars
    /\ UNCHANGED <<nameVars, selection, gwVars, raceVars, boundary, phone>>

SplitNext == CallSplit \/ CallSplitAtWordBoundary \/ CallSplitAgain

SplitSpec == SplitInit /\ [][SplitNext]_vars

(***************************************************************************)
(* The splitter at its default max_length (ScenarioSpec): messages of the  *)
(* length of the documented scenario                                       *)
(***************************************************************************)

\* max_length: int = 160
DefaultMaxLength == 160

\* the length of the scenario's messages
ScenarioLen == 350

\* where a run of separators or punctuation starts, and how long it is
RunStarts == 140..160

RunLengths == {1, 60}

\* letters, a run of one character, letters up to ScenarioLen
WithRun(start, c, run) ==
    [k \in 1..ScenarioLen |-> IF k > start /\ k <= start + run THEN c ELSE "a"]

\* a short pattern repeated up to ScenarioLen
Patterned(p) == [k \in 1..ScenarioLen |-> p[((k - 1) % Len(p)) + 1]]

ScenarioMessages ==
    {Patterned(p) : p \in Patterns}
    \cup {WithRun(start, c, run) : start \in RunStarts, c \in {" ", "."},
                                   run \in RunLengths}

ScenarioInit ==
    /\ OthersOff
    /\ message \in ScenarioMessages
    /\ max_length = DefaultMaxLength
    /\ add_numbering = TRUE
    /\ split_pc = "input"
    /\ split_out = NoResult
    /\ ClientInit

ScenarioSpec == ScenarioInit /\ [][SplitNext]_vars

(***************************************************************************)
(* normalize_phone_number on bounded phone numbers (NormalizeSpec)         *)
(***************************************************************************)

\* two digits and the formatting characters
PhoneAlphabet == {"4", "9"} \cup FormattingCharacters

\* the characters behind the optional leading "+"
MaxPhoneLen == 4

\* digits and formatting characters, with and without a leading "+"
PhoneNumbers ==
    LET plain == UNION {[1..n -> PhoneAlphabet] : n \in 0..MaxPhoneLen}
    IN  plain \cup {<<"+">> \o x : x \in plain}

NormalizeInit ==
    /\ phone \in [pc : {"input"}, input : PhoneNumbers, output : {<<>>},
                  again : {<<>>}]
    /\ boundary = NoBoundary
    /\ resplit = NoResplit
    /\ NamesOff
    /\ SelectionOff
    /\ GatewayOff
    /\ RaceOff
    /\ ClientInit
    /\ SplitOff

\* the call normalize_phone_number(phone_number)
CallNormalize ==
    /\ phone.pc = "input"
    /\ phone' = [phone EXCEPT !.pc = "returned",
                              !.output = normalize_phone_number(phone.input)]
    /\ UNCHANGED splitVars
    /\ UNCHANGED clientVars
    /\ UNCHANGED <<nameVars, selection, gwVars, raceVars, boundary, resplit>>

NormalizeNext == CallNormalize

NormalizeSpec == NormalizeInit /\ [][NormalizeNext]_vars

(***************************************************************************)
(* The number of a gateway request: normalized by the handler, then again  *)
(* by send_sms (RenormalizeSpec)                                           *)
(***************************************************************************)

\* two digits, the formatting characters and "+"
SignedAlphabet == PhoneAlphabet \cup {"+"}

\* the strings over digits, formatting characters and "+" signs
SignedNumbers == UNION {[1..n -> SignedAlphabet] : n \in 0..MaxPhoneLen}

RenormalizeInit ==
    /\ phone \in [pc : {"input"}, input : SignedNumbers, output : {<<>>},
                  again : {<<>>}]
    /\ boundary = NoBoundary
    /\ resplit = NoResplit
    /\ NamesOff
    /\ SelectionOff
    /\ GatewayOff
    /\ RaceOff
    /\ ClientInit
    /\ SplitOff

\* "phone_number = normalize_phone_number(phone_number)" of send_sms, called
\* with the number the handler has normalized
CallNormalizeAgain ==
    /\ phone.pc = "returned"
    /\ phone' = [phone EXCEPT !.pc = "twice",
                              !.again = normalize_phone_number(phone.output)]
    /\ UNCHANGED splitVars
    /\ UNCHANGED clientVars
    /\ UNCHANGED <<nameVars, selection, gwVars, raceVars, boundary, resplit>>

RenormalizeNext == CallNormalize \/ CallNormalizeAgain

RenormalizeSpec == RenormalizeInit /\ [][RenormalizeNext]_vars

(***************************************************************************)
(* The router client as a state machine                                    *)
(*                                                                         *)
(* Spec: the client's whole life (clock, cache file, authenticate,         *)
(* get_modems, send_sms segment by segment) with the login responses of    *)
(* SimpleLogins.  AuthSpec: authentication and the cache at one instant,   *)
(* with every login response of LoginResponses.                            *)
(***************************************************************************)

\* the inputs a call draws its login response from: every response when the
\* call issues a login request, none otherwise
LoginInputs(needs_login, responses) == IF needs_login THEN responses ELSE {NoLogin}

\* the cache file cannot be written (disk_ok = FALSE): tried with the logins
\* that answer the documented shape alone
DiskInputs(needs_login, resp) ==
    IF needs_login /\ resp \in SimpleLogins THEN BOOLEAN ELSE {TRUE}

\* likewise for the response to a modem-status GET
ModemInputs(needs_get) == IF needs_get THEN ModemResponses ELSE {NoModemsResponse}

IssuesGet(o) == \E k \in 1..Len(o.reqs) : o.reqs[k].kind = "modems"

\* time passes; inside send_sms by less than the timeout of a request
Tick ==
    /\ ticks < MaxTicks
    /\ \E d \in TickSteps : (pc = "sending" => d < RequestTimeout) /\ now' = now + d
    /\ ticks' = ticks + 1
    /\ last' = NoCall
    /\ UNCHANGED <<client, cache, pc, send, issued>>
    /\ UNCHANGED splitVars
    /\ UNCHANGED otherVars

\* TRB245SMS(...): a new client object (a new process, a new gateway request)
NewClient ==
    /\ pc = "idle"
    /\ client' = NewClientFields
    /\ last' = NoCall
    /\ issued' = [issued EXCEPT !.mem = NoIssue]
    /\ UNCHANGED <<now, ticks, cache, pc, send>>
    /\ UNCHANGED splitVars
    /\ UNCHANGED otherVars

\* the cache file is rewritten from outside this client
ExternalCacheWrite ==
    /\ pc = "idle"
    /\ cache' \in ExternalFiles(now)
    /\ last' = NoCall
    /\ issued' = [issued EXCEPT !.file = NoIssue, !.save = NoSave]
    /\ UNCHANGED <<now, ticks, client, pc, send>>
    /\ UNCHANGED splitVars
    /\ UNCHANGED otherVars

\* a call's effect on the client and the cache file
Becomes(o) ==
    /\ client' = ClientOf(o.w)
    /\ cache' = o.w.cache
    /\ issued' = IssuedAfter(o, now)

CallLoadTokenFromCache ==
    /\ pc = "idle"
    /\ LET o == load_token_from_cache(World(client, cache), now)
       IN  /\ Becomes(o)
           /\ last' = Ended("load_token_from_cache", FALSE, o, NoLogin)
    /\ UNCHANGED <<now, ticks, pc, send>>
    /\ UNCHANGED splitVars
    /\ UNCHANGED otherVars

CallIsTokenValid ==
    /\ pc = "idle"
    /\ LET o == is_token_valid(World(client, cache), now)
       IN  /\ Becomes(o)
           /\ last' = Ended("is_token_valid", FALSE, o, NoLogin)
    /\ UNCHANGED <<now, ticks, pc, send>>
    /\ UNCHANGED splitVars
    /\ UNCHANGED otherVars

\* authenticate(force), the router answering with one of responses
AuthenticateWith(responses) ==
    /\ pc = "idle"
    /\ \E force \in BOOLEAN :
         LET w     == World(client, cache)
             needs == authenticate(w, force, NoLogin, TRUE, now).logins > 0
         IN  \E resp \in LoginInputs(needs, responses) :
             \E disk_ok \in DiskInputs(needs, resp) :
                LET o == authenticate(w, force, resp, disk_ok, now)
                IN  /\ Becomes(o)
                    /\ last' = Ended("authenticate", force, o, resp)
    /\ UNCHANGED <<now, ticks, pc, send>>
    /\ UNCHANGED splitVars
    /\ UNCHANGED otherVars

CallAuthenticate == AuthenticateWith(SimpleLogins)

CallAuthenticateAnyResponse == AuthenticateWith(LoginResponses)

CallGetModems ==
    /\ pc = "idle"
    /\ LET w     == World(client, cache)
           needs == EnsureToken(w, NoLogin, TRUE, now).logins > 0
       IN  \E resp \in LoginInputs(needs, SimpleLogins) :
             \E modems_resp \in ModemInputs(IssuesGet(get_modems(w, resp, TRUE,
                                                     NoModemsResponse, now))) :
                LET o == get_modems(w, resp, TRUE, modems_resp, now)
                IN  /\ Becomes(o)
                    /\ last' = Ended("get_modems", FALSE, o, resp)
    /\ UNCHANGED <<now, ticks, pc, send>>
    /\ UNCHANGED splitVars
    /\ UNCHANGED otherVars

\* the state after a turn of send_sms with outcome p
SendTurnEnds(p, resp) ==
    /\ Becomes(p.out)
    /\ send' = p.send
    /\ pc' = IF p.hangs THEN "hung" ELSE IF p.returned THEN "idle" ELSE "sending"
    /\ last' = [Ended(IF p.returned THEN "send_sms" ELSE "send_part", FALSE,
                       p.out, resp) EXCEPT !.sms = p.sms]

\* send_sms(number, msg, modem, split_long_messages, SendMaxLen) is called and
\* runs up to the return of its first submission
SendStart ==
    /\ pc = "idle"
    /\ \E call \in SendCalls, send_resp \in SendResponses :
         LET w     == World(client, cache)
             needs == send_sms_begin(w, call.msg, SendMaxLen, call.split, send_resp,
                                     NoLogin, TRUE, NoModemsResponse,
                                     now).out.logins > 0
         IN  \E resp \in LoginInputs(needs, SimpleLogins) :
             \E modems_resp \in ModemInputs(IssuesGet(
                     send_sms_begin(w, call.msg, SendMaxLen, call.split, send_resp,
                                    resp, TRUE, NoModemsResponse, now).out)) :
                SendTurnEnds(send_sms_begin(w, call.msg, SendMaxLen, call.split,
                                            send_resp, resp, TRUE, modems_resp,
                                            now), resp)
    /\ UNCHANGED <<now, ticks>>
    /\ UNCHANGED splitVars
    /\ UNCHANGED otherVars

\* the next submission of the multi-segment send_sms in progress, up to its return
SendPart ==
    /\ pc = "sending"
    /\ \E send_resp \in SendResponses :
         LET w     == World(client, cache)
             needs == SendPartTurn(w, send, send_resp, NoLogin, TRUE,
                                   NoModemsResponse, now).out.logins > 0
         IN  \E resp \in LoginInputs(needs, SimpleLogins) :
             \E modems_resp \in ModemInputs(IssuesGet(
                     SendPartTurn(w, send, send_resp, resp, TRUE, NoModemsResponse,
                                  now).out)) :
                SendTurnEnds(SendPartTurn(w, send, send_resp, resp, TRUE,
                                          modems_resp, now), resp)
    /\ UNCHANGED <<now, ticks>>
    /\ UNCHANGED splitVars
    /\ UNCHANGED otherVars

Next ==
    \/ Tick
    \/ NewClient
    \/ CallLoadTokenFromCache
    \/ CallIsTokenValid
    \/ CallAuthenticate
    \/ CallGetModems
    \/ SendStart
    \/ SendPart

Init == ClientInit /\ SplitOff /\ OthersOff

Spec == Init /\ [][Next]_vars

AuthNext ==
    \/ NewClient
    \/ ExternalCacheWrite
    \/ CallLoadTokenFromCache
    \/ CallIsTokenValid
    \/ CallAuthenticateAnyResponse

AuthSpec == Init /\ [][AuthNext]_vars

(***************************************************************************)
(* TRB245SMS.__init__: the location of the token cache file                *)
(***************************************************************************)

\* str.replace(old, new): every occurrence, left to right, without overlap
RECURSIVE PyReplace(_, _, _)
PyReplace(text, old, new) ==
    IF Len(text) < Len(old) THEN text
    ELSE IF SubSeq(text, 1, Len(old)) = old
    THEN new \o PyReplace(SubSeq(text, Len(old) + 1, Len(text)), old, new)
    ELSE <<Head(text)>> \o PyReplace(Tail(text), old, new)

HttpsScheme == <<"h", "t", "t", "p", "s", ":", "/", "/">>

HttpScheme == <<"h", "t", "t", "p", ":", "/", "/">>

\* router_url.replace('https://', '').replace('http://', '')
\*           .replace('/', '_').replace('.', '_')
cache_name(router_url) ==
    PyReplace(PyReplace(PyReplace(PyReplace(router_url, HttpsScheme, <<>>),
                                  HttpScheme, <<>>),
                        <<"/">>, <<"_">>),
              <<".">>, <<"_">>)

\* Path.home() / f".trb245_token_{cache_name}.json", as the file's name
token_cache_file(router_url) ==
    <<".trb245_token_">> \o cache_name(router_url) \o <<".json">>

\* the characters of a router URL after its scheme: a letter, the separators
\* of host labels and of path segments, and the underscore
UrlAlphabet == {"r", ".", "/", "_"}

\* the part of a router URL after the scheme has at most this many characters
MaxUrlLen == 3

\* http:// or https://, then a host that starts with a letter
RouterUrls ==
    {scheme \o rest : scheme \in {HttpScheme, HttpsScheme},
                      rest \in {u \in UNION {[1..n -> UrlAlphabet] : n \in 1..MaxUrlLen} :
                                   u[1] = "r"}}

NamesInit ==
    /\ router_urls \in RouterUrls \X RouterUrls
    /\ token_cache_files = <<>>
    /\ SelectionOff
    /\ GatewayOff
    /\ RaceOff
    /\ PureOff
    /\ ClientInit
    /\ SplitOff

\* TRB245SMS(router_urls[1], ...) and TRB245SMS(router_urls[2], ...)
ConstructClients ==
    /\ token_cache_files = <<>>
    /\ token_cache_files' = <<token_cache_file(router_urls[1]),
                              token_cache_file(router_urls[2])>>
    /\ UNCHANGED <<router_urls, selection>>
    /\ UNCHANGED <<gwVars, raceVars, pureVars>>
    /\ UNCHANGED splitVars
    /\ UNCHANGED clientVars

NamesNext == ConstructClients

CacheNameSpec == NamesInit /\ [][NamesNext]_vars

(***************************************************************************)
(* The modem selection applied to bounded modem lists                      *)
(***************************************************************************)

\* the modem ids of the router: the fallback id, another id, no "id" key
ModemIds == {FallbackModem, "2-1", Absent}

\* a modem list holds at most this many modems
MaxModems == 2

ModemLists ==
    UNION {[1..n -> [id : ModemIds, primary : BOOLEAN]] : n \in 0..MaxModems}

\* what get_modems returns: None, a response without success, a modem list
ModemResults ==
    {NoModems, [kind |-> "json", success |-> FALSE, data |-> <<>>]}
    \cup {[kind |-> "json", success |-> TRUE, data |-> d] : d \in ModemLists}

ModemInit ==
    /\ selection \in [modems : ModemResults, by : {"none"}, modem_id : {None}]
    /\ NamesOff
    /\ GatewayOff
    /\ RaceOff
    /\ PureOff
    /\ ClientInit
    /\ SplitOff

\* the gateway's handler selects the modem and sends through it
GatewaySelects ==
    /\ selection.by # "gateway"
    /\ selection' = [selection EXCEPT !.by = "gateway",
                                      !.modem_id = ModemSentThrough(
                                                     GatewayModem(selection.modems))]
    /\ UNCHANGED nameVars
    /\ UNCHANGED <<gwVars, raceVars, pureVars>>
    /\ UNCHANGED splitVars
    /\ UNCHANGED clientVars

\* main selects the modem and sends through it
MainSelects ==
    /\ selection.by # "main"
    /\ selection' = [selection EXCEPT !.by = "main",
                                      !.modem_id = ModemSentThrough(
                                                     MainModem(selection.modems))]
    /\ UNCHANGED nameVars
    /\ UNCHANGED <<gwVars, raceVars, pureVars>>
    /\ UNCHANGED splitVars
    /\ UNCHANGED clientVars

ModemNext == GatewaySelects \/ MainSelects

ModemSpec == ModemInit /\ [][ModemNext]_vars

(***************************************************************************)
(* The gateway as a state machine (GatewaySpec): one request at a time,    *)
(* each with a router client of its own; the cache file and the clock      *)
(* outlive the requests.  Every request is handled a second time, for the  *)
(* same inputs with the other caller's username and password (gw_twin).    *)
(***************************************************************************)

\* the caller's username and password
GwCallers ==
    {[username |-> "prtg", password |-> "passw"],
     [username |-> "guest", password |-> "guess"]}

\* the number parameter: formatting characters only, and "+49" percent-encoded
GwNumbers == {<<"-">>, <<"%", "2", "B", "4", "9">>}

\* the text parameter: empty, a short message, a message of several segments
GwTexts == {<<>>, Repeat(<<"a">>, 2), Repeat(<<"a">>, SendMaxLen + 1)}

\* the router section of config.yaml: complete, and without the password
GwConfigs ==
    {[url |-> "http://router", username |-> "admin", password |-> "secret"],
     [url |-> "http://router", username |-> "admin", password |-> None]}

\* the login responses of GatewaySpec: a failed request, a JSON scalar, a JSON
\* object without any token, and {"data": {"token": ..., "expires": ...}} with
\* the default validity or with one shorter than the safety margin
GwLogins ==
    {r \in LoginResponses :
        \/ r.kind \in {"request_error", "json_scalar"}
        \/ /\ r.kind = "json"
           /\ ~r.top /\ ~r.result /\ ~r.sysauth /\ ~r.cookie
           /\ \/ r.data = "dict_token" /\ r.exp_kind \in {"absent", "num"}
              \/ r.data = "absent" /\ r.exp_kind = "absent"}

\* the responses to the handler's modem query
GwModemResponses ==
    {NoModemsResponse,
     [kind |-> "json", success |-> TRUE, data |-> <<>>],
     [kind |-> "json", success |-> TRUE,
      data |-> <<[id |-> "2-1", primary |-> FALSE], [id |-> "3-1", primary |-> TRUE]>>]}

GwModemInputs(needs_get) == IF needs_get THEN GwModemResponses ELSE {NoModemsResponse}

\* a request arrives: the parameters are decoded and validated, the
\* configuration is read and the router client constructed (lines 116-172)
GwReceive ==
    /\ pc = "idle"
    /\ gw.stage \in {"idle", "done"}
    /\ \E caller \in GwCallers, other \in GwCallers, number \in GwNumbers,
          text \in GwTexts, config \in GwConfigs :
         /\ other # caller
         /\ gw' = GwValidated(caller, number, text, config)
         /\ gw_twin' = GwValidated(other, number, text, config)
    /\ client' = NewClientFields
    /\ issued' = [issued EXCEPT !.mem = NoIssue]
    /\ last' = NoCall
    /\ UNCHANGED <<now, ticks, cache, pc, send>>
    /\ UNCHANGED <<nameVars, selection, raceVars, pureVars>>
    /\ UNCHANGED splitVars

\* "if not sms.authenticate(): ..." (lines 176-182)
GwAuthenticate ==
    /\ gw.stage = "authenticate"
    /\ LET w     == World(client, cache)
           needs == authenticate(w, FALSE, NoLogin, TRUE, now).logins > 0
       IN  \E resp \in LoginInputs(needs, GwLogins) :
             /\ Becomes(authenticate(w, FALSE, resp, TRUE, now))
             /\ gw' = GwAuthenticated(gw, authenticate(w, FALSE, resp, TRUE, now))
             /\ gw_twin' = GwAuthenticated(gw_twin,
                                           authenticate(w, FALSE, resp, TRUE, now))
    /\ last' = NoCall
    /\ UNCHANGED <<now, ticks, pc, send>>
    /\ UNCHANGED <<nameVars, selection, raceVars, pureVars>>
    /\ UNCHANGED splitVars

\* "modems = sms.get_modems()" and the modem selection (lines 186-199)
GwGetModems ==
    /\ gw.stage = "modems"
    /\ LET w     == World(client, cache)
           needs == EnsureToken(w, NoLogin, TRUE, now).logins > 0
       IN  \E resp \in LoginInputs(needs, GwLogins) :
             \E modems_resp \in GwModemInputs(IssuesGet(get_modems(w, resp, TRUE,
                                                       NoModemsResponse, now))) :
                /\ Becomes(get_modems(w, resp, TRUE, modems_resp, now))
                /\ gw' = GwModemSelected(gw, get_modems(w, resp, TRUE, modems_resp,
                                                        now))
                /\ gw_twin' = GwModemSelected(gw_twin, get_modems(w, resp, TRUE,
                                                                  modems_resp, now))
    /\ last' = NoCall
    /\ UNCHANGED <<now, ticks, pc, send>>
    /\ UNCHANGED <<nameVars, selection, raceVars, pureVars>>
    /\ UNCHANGED splitVars

\* the state after the turn p of the handler's send_sms call
GwSendTurnEnds(p) ==
    /\ Becomes(p.out)
    /\ send' = p.send
    /\ pc' = IF p.hangs THEN "hung" ELSE IF p.returned THEN "idle" ELSE "sending"
    /\ gw' = GwSendTurn(gw, p)
    /\ gw_twin' = GwSendTurn(gw_twin, p)
    /\ last' = NoCall

\* "result = sms.send_sms(phone_number, message, modem_id)" up to the return
\* of its first submission, and the response if send_sms returned
GwSendStart ==
    /\ gw.stage = "send"
    /\ \E send_resp \in SendResponses :
         LET w     == World(client, cache)
             needs == send_sms_begin(w, gw.message, SendMaxLen, TRUE, send_resp,
                                     NoLogin, TRUE, NoModemsResponse,
                                     now).out.logins > 0
         IN  \E resp \in LoginInputs(needs, GwLogins) :
             \E modems_resp \in ModemInputs(IssuesGet(
                     send_sms_begin(w, gw.message, SendMaxLen, TRUE, send_resp,
                                    resp, TRUE, NoModemsResponse, now).out)) :
                GwSendTurnEnds(send_sms_begin(w, gw.message, SendMaxLen, TRUE,
                                              send_resp, resp, TRUE, modems_resp,
                                              now))
    /\ UNCHANGED <<now, ticks>>
    /\ UNCHANGED <<nameVars, selection, raceVars, pureVars>>
    /\ UNCHANGED splitVars

\* the next submission of the handler's send_sms call, and the response if
\* send_sms returned
GwSendPart ==
    /\ gw.stage = "sending"
    /\ \E send_resp \in SendResponses :
         LET w     == World(client, cache)
             needs == SendPartTurn(w, send, send_resp, NoLogin, TRUE,
                                   NoModemsResponse, now).out.logins > 0
         IN  \E resp \in LoginInputs(needs, GwLogins) :
             \E modems_resp \in ModemInputs(IssuesGet(
                     SendPartTurn(w, send, send_resp, resp, TRUE, NoModemsResponse,
                                  now).out)) :
                GwSendTurnEnds(SendPartTurn(w, send, send_resp, resp, TRUE,
                                            modems_resp, now))
    /\ UNCHANGED <<now, ticks>>
    /\ UNCHANGED <<nameVars, selection, raceVars, pureVars>>
    /\ UNCHANGED splitVars

\* time passes; while a request is handled by less than the timeout of a request
GwTick ==
    /\ ticks < MaxTicks
    /\ \E d \in TickSteps :
         /\ gw.stage \notin {"idle", "done"} => d < RequestTimeout
         /\ now' = now + d
    /\ ticks' = ticks + 1
    /\ UNCHANGED <<client, cache, pc, send, last, issued>>
    /\ UNCHANGED otherVars
    /\ UNCHANGED splitVars

GatewayNext ==
    \/ GwReceive
    \/ GwAuthenticate
    \/ GwGetModems
    \/ GwSendStart
    \/ GwSendPart
    \/ GwTick

GatewaySpec == Init /\ [][GatewayNext]_vars

(***************************************************************************)
(* Processes sharing one cache file (RaceSpec): each step is one statement *)
(* of save_token_to_cache or load_token_from_cache of one process          *)
(***************************************************************************)

\* the validity the router announced for a token
RaceExpires == {ShortExpires, DefaultExpires}

RaceInit == Init

SaversIdle == \A q \in Procs : procs[q].pc \notin {"opened", "written"}

RaceRest ==
    /\ UNCHANGED splitVars
    /\ UNCHANGED <<client, cache, pc, send, last, issued>>
    /\ UNCHANGED <<nameVars, selection, gwVars, pureVars>>

\* expires_at = time.time() + expires_seconds and open(..., 'w')
SaveOpen(p) ==
    /\ procs[p].pc = "idle"
    /\ procs[p].ops < MaxOps
    /\ \E expires_seconds \in RaceExpires :
          /\ disk' = OpenForWriting(disk)
          /\ procs' = [procs EXCEPT ![p].pc = "opened",
                                    ![p].fd = disk'.inode,
                                    ![p].entry = [token |-> TokenOf(p),
                                                  expires_at |-> now + expires_seconds]]
    /\ UNCHANGED <<saves, now, ticks>>
    /\ RaceRest

\* json.dump(cache_data, f) and the end of the with-block
SaveWrite(p) ==
    /\ procs[p].pc = "opened"
    /\ disk' = WriteAtStart(disk, procs[p].fd, JsonDump(procs[p].entry))
    /\ procs' = [procs EXCEPT ![p].pc = "written"]
    /\ saves' = [entries |-> saves.entries \cup {procs[p].entry},
                 seq |-> saves.seq + 1,
                 last |-> procs[p].entry]
    /\ UNCHANGED <<now, ticks>>
    /\ RaceRest

\* os.chmod(self.token_cache_file, 0o600); without the file it raises
\* FileNotFoundError, which `except IOError` swallows
SaveChmod(p) ==
    /\ procs[p].pc = "written"
    /\ procs' = [procs EXCEPT ![p].pc = "idle", ![p].fd = 0, ![p].entry = NoEntry,
                              ![p].ops = procs[p].ops + 1]
    /\ UNCHANGED <<disk, saves, now, ticks>>
    /\ RaceRest

\* if not self.token_cache_file.exists(): return False
LoadExists(p) ==
    /\ procs[p].pc = "idle"
    /\ procs[p].ops < MaxOps
    /\ procs' = [procs EXCEPT ![p] =
          IF disk.inode = 0
          THEN LoadMissed([procs[p] EXCEPT !.after = IF SaversIdle THEN saves.seq ELSE 0], now)
          ELSE [procs[p] EXCEPT !.pc = "exists", !.result = "none",
                                !.after = IF SaversIdle THEN saves.seq ELSE 0]]
    /\ UNCHANGED <<disk, saves, now, ticks>>
    /\ RaceRest

\* open(..., 'r'), json.load(f) and the check of token and expires_at
LoadRead(p) ==
    /\ procs[p].pc = "exists"
    /\ procs' = [procs EXCEPT ![p] = LoadParsed(procs[p], disk, now)]
    /\ UNCHANGED <<disk, saves, now, ticks>>
    /\ RaceRest

\* current_time = time.time(); if current_time < expires_at - 10
LoadDecide(p) ==
    /\ procs[p].pc = "parsed"
    /\ procs' = [procs EXCEPT ![p] =
          IF NotExpired(now, procs[p].data.expires_at)
          THEN LoadHit(procs[p], now)
          ELSE [procs[p] EXCEPT !.pc = "expired"]]
    /\ UNCHANGED <<disk, saves, now, ticks>>
    /\ RaceRest

\* self.token_cache_file.unlink(); return False. Without the file it raises
\* FileNotFoundError, which `except IOError` turns into return False
LoadUnlink(p) ==
    /\ procs[p].pc = "expired"
    /\ disk' = IF disk.inode = 0 THEN disk ELSE Unlink(disk)
    /\ procs' = [procs EXCEPT ![p] = LoadMissed(procs[p], now)]
    /\ UNCHANGED <<saves, now, ticks>>
    /\ RaceRest

\* time passes
RaceTick ==
    /\ ticks < MaxTicks
    /\ \E d \in TickSteps : now' = now + d
    /\ ticks' = ticks + 1
    /\ UNCHANGED raceVars
    /\ RaceRest

RaceNext ==
    \/ \E p \in Procs : SaveOpen(p)
    \/ \E p \in Procs : SaveWrite(p)
    \/ \E p \in Procs : SaveChmod(p)
    \/ \E p \in Procs : LoadExists(p)
    \/ \E p \in Procs : LoadRead(p)
    \/ \E p \in Procs : LoadDecide(p)
    \/ \E p \in Procs : LoadUnlink(p)
    \/ RaceTick

RaceSpec == RaceInit /\ [][RaceNext]_vars

(***************************************************************************)
(* Claims about the message splitter (checked under SplitSpec)             *)
(***************************************************************************)

RECURSIVE NonWhitespace(_)
NonWhitespace(text) ==
    IF text = <<>> THEN <<>>
    ELSE IF IsPyWhitespace(Head(text)) THEN NonWhitespace(Tail(text))
    ELSE <<Head(text)>> \o NonWhitespace(Tail(text))

\* the call returned the segments of a message it had to split, numbered
SplitReturnedNumbered ==
    /\ split_pc = "returned"
    /\ add_numbering
    /\ Len(message) > max_length
    /\ ~split_out.diverges

\* C1: every segment returned for a message longer than max_length, numbering
\* on, has a rendered length (prefix plus body) of at most max_length. Stated
\* for the segments that carry their prefix "k/N: ", which leaves aside the
\* unprefixed fallback of a max_length no prefix fits into.
C1_RenderedLengthWithinMax ==
    SplitReturnedNumbered =>
        \A k \in 1..Len(split_out.parts) :
            StartsWith(split_out.parts[k], ExpectedPrefix(k, Len(split_out.parts)))
                => Len(split_out.parts[k]) <= max_length

C6_BodiesReproduceMessage ==
    SplitReturnedNumbered =>
        NonWhitespace(Concat([k \in 1..Len(split_out.parts) |->
                BodyOf(split_out.parts[k], k, Len(split_out.parts))]))
            = NonWhitespace(message)

\* C16: split_sms_message terminates and returns a list of segments for every
\* message and every max_length >= 1, with and without numbering, a max_length
\* no numbering prefix fits into (body budget <= 0) included.
C16_SplitTerminates ==
    split_pc = "returned" => ~split_out.diverges

\* C25: a message with len(message) <= max_length, the empty message and a
\* message of exactly max_length characters included, comes back as exactly
\* one segment equal to the input, without a prefix, with numbering on or off.
C25_ShortMessageOneSegment ==
    split_pc = "returned" /\ Len(message) <= max_length =>
        ~split_out.diverges /\ split_out.parts = <<message>>

\* C25 witness: a non-empty message exactly at the boundary, numbering on
C25_Witness ==
    /\ split_pc = "returned"
    /\ add_numbering
    /\ message # <<>>
    /\ Len(message) = max_length
    /\ split_out.parts = <<message>>

\* the returned segments are correct: none is longer than max_length, each
\* numbered one carries its prefix, and the bodies hold the message's text
CorrectSegments ==
    /\ \A k \in 1..Len(split_out.parts) :
          /\ Len(split_out.parts[k]) <= max_length
          /\ add_numbering /\ Len(message) > max_length =>
                StartsWith(split_out.parts[k], ExpectedPrefix(k, Len(split_out.parts)))
    /\ NonWhitespace(BodiesOf(split_out.parts)) = NonWhitespace(message)

\* C26: when a message was split into N correct segments, splitting the
\* concatenation of the segments' bodies with the same max_length and the
\* same numbering setting yields N segments again.
C26_ResplitSameCount ==
    resplit.called /\ CorrectSegments =>
        ~resplit.diverges /\ Len(resplit.parts) = Len(split_out.parts)

\* the 0-based index nearest the boundary, among the `window` indices up to
\* and including the boundary index, of a character of marks; -1 without one
NearestMark(text, limit, window, marks) ==
    IF \E i \in 0..limit : i > limit - window /\ i > 0 /\ i < Len(text) /\ text[i + 1] \in marks
    THEN SetMax({i \in 1..limit : i > limit - window /\ i < Len(text) /\ text[i + 1] \in marks})
    ELSE -1

\* the pair a split of text at 0-based index i (the cut after text[i]) gives
CutAfter(text, i) ==
    [first |-> RStrip(SubSeq(text, 1, i + 1)),
     rest |-> LStrip(SubSeq(text, i + 2, Len(text)))]

\* split_at_word_boundary(message, max_length) returned for a text longer than
\* max_length, the nearest whitespace being at ws, the nearest punctuation at pu
BoundaryRules(ws, pu) ==
    /\ ws # -1 =>
          /\ boundary.first = CutAfter(message, ws).first
          /\ boundary.rest = CutAfter(message, ws).rest
    /\ ws = -1 /\ pu # -1 =>
          /\ boundary.first = CutAfter(message, pu).first
          /\ boundary.rest = CutAfter(message, pu).rest
    /\ ws = -1 /\ pu = -1 => boundary.first = SubSeq(message, 1, max_length)
    /\ Len(boundary.first) <= max_length
    /\ boundary.first = <<>> \/ ~IsPyWhitespace(boundary.first[Len(boundary.first)])
    /\ boundary.rest = <<>> \/ ~IsPyWhitespace(boundary.rest[1])

\* C28: split_at_word_boundary, for a text longer than max_length, cuts at the
\* whitespace nearest the boundary when one lies within the last 20 positions
\* (also when punctuation lies there), otherwise right after the punctuation
\* nearest the boundary when one lies within the last 10 positions, otherwise
\* after exactly max_length characters; the first part has at most max_length
\* characters and no trailing whitespace, the remainder no leading whitespace.
C28_BoundaryPreference ==
    boundary.called /\ Len(message) > max_length =>
        BoundaryRules(NearestMark(message, max_length, WhitespaceWindow, WordSeparators),
                      NearestMark(message, max_length, PunctuationWindow, PunctuationMarks))

\* C29: without numbering, split_sms_message terminates for every message and
\* every max_length >= 1, and no returned segment is longer than max_length.
C29_UnnumberedWithinMax ==
    split_pc = "returned" /\ ~add_numbering =>
        /\ ~split_out.diverges
        /\ \A k \in 1..Len(split_out.parts) : Len(split_out.parts[k]) <= max_length

\* C27: a message of 350 characters, split with max_length = 160 and numbering
\* on, comes back as exactly 3 segments of at most 160 characters each, with
\* the prefixes "1/3: ", "2/3: " and "3/3: " in this order.
C27_ScenarioThreeSegments ==
    /\ split_pc = "returned"
    /\ Len(message) = 350 /\ max_length = 160 /\ add_numbering
    => /\ ~split_out.diverges
       /\ Len(split_out.parts) = 3
       /\ \A k \in 1..Len(split_out.parts) :
             /\ Len(split_out.parts[k]) <= 160
             /\ StartsWith(split_out.parts[k], ExpectedPrefix(k, 3))

(***************************************************************************)
(* Claims about the router client                                          *)
(***************************************************************************)

\* the submissions of posted are those of segments 1, 2, ... in this order
InOrder(posted) == \A j \in 1..Len(posted) : posted[j].seg = j

\* all submissions of posted but the last succeeded
AllButLastSucceeded(posted) == \A j \in 1..(Len(posted) - 1) : posted[j].success

\* the send requests among reqs
SendRequests(reqs) == SelectSeq(reqs, LAMBDA q : q.kind = "send")

\* the number of segments of the message of SendCalls that is split
SegmentsOfSplitCall ==
    Len(split_sms_message(Repeat(<<"a">>, SendMaxLen + 1), SendMaxLen, TRUE).parts)

\* C2: the segments of a multi-segment send are submitted one at a time in
\* ascending index order, each after the previous one succeeded; when the
\* submission of segment k fails no later segment is submitted and send_sms
\* returns success = False, parts_sent = k - 1 and total_parts = N, the number
\* of segments of the message.
C2_SequentialFailFast ==
    /\ pc = "sending" =>
         /\ InOrder(send.posted)
         /\ \A j \in 1..Len(send.posted) : send.posted[j].success
         /\ Len(send.posted) = send.idx - 1
         /\ send.idx <= Len(send.parts)
         /\ Len(send.parts) = SegmentsOfSplitCall
    /\ last.op = "send_part" =>
         /\ pc = "sending"
         /\ Len(SendRequests(last.reqs)) = 1
         /\ SendRequests(last.reqs)[1].seg = send.idx - 1
    /\ last.op = "send_sms" /\ last.sms.kind = "part_failed" =>
         /\ last.sms.posted # <<>>
         /\ InOrder(last.sms.posted)
         /\ AllButLastSucceeded(last.sms.posted)
         /\ ~last.sms.posted[Len(last.sms.posted)].success
         /\ Len(last.sms.posted) <= SegmentsOfSplitCall
         /\ SendRequests(last.reqs)[1].seg = Len(last.sms.posted)
         /\ Len(SendRequests(last.reqs)) = 1
         /\ ~last.sms.success
         /\ last.sms.failed_part = Len(last.sms.posted)
         /\ last.sms.parts_sent = Len(last.sms.posted) - 1
         /\ last.sms.total_parts = SegmentsOfSplitCall
    /\ last.op = "send_sms" /\ last.sms.kind = "all_sent" =>
         /\ InOrder(last.sms.posted)
         /\ \A j \in 1..Len(last.sms.posted) : last.sms.posted[j].success
         /\ Len(last.sms.posted) = SegmentsOfSplitCall

\* a send of several segments fails at a segment after the first and before the
\* last
C2_Witness ==
    /\ last.op = "send_sms" /\ last.sms.kind = "part_failed"
    /\ last.sms.failed_part > 1
    /\ last.sms.failed_part < last.sms.total_parts
    /\ last.sms.parts_sent = last.sms.failed_part - 1

\* C3: authenticate returns False whenever the login request fails or its
\* response yields no token in any recognised shape, whatever the client held
\* before (an earlier token included).
C3_NoTokenMeansFalse ==
    last.op = "authenticate" /\ last.logins = 1 /\ ~last.raised /\ last.want = None
        => ~last.ret

\* the token a request carried was one the client could use at that moment
Usable(req) ==
    /\ req.token # None
    /\ req.expires_at # NoExpiry
    /\ req.at < req.expires_at - SafetyMargin

\* C4: every modem-status GET and every send POST, each segment of a
\* multi-segment send included, is issued at a time now < expiry - 10 s of the
\* token it carries.
C4_RequestsCarryUsableToken ==
    \A k \in 1..Len(last.reqs) : Usable(last.reqs[k])

\* C7: a login response that carries a token in any of the documented shapes
\* authenticates: authenticate returns True holding the token of the
\* highest-priority shape present.
C7_AnyShapeAuthenticates ==
    last.op = "authenticate" /\ last.logins = 1 /\ ~last.raised /\ last.want # None
        => last.ret /\ client.token = last.want

\* the cache file held a well-formed entry that had not expired
WellFormedUnexpired(f) ==
    f.kind = "object" /\ f.has_token /\ f.exp_kind = "num" /\ ~f.expired

\* C8: authenticate(force=False) on a well-formed unexpired cache entry issues
\* no login request and adopts the entry's token and expiry;
\* authenticate(force=True) always issues the login request and never takes
\* the token from the cache.
C8_CacheBeforeLogin ==
    last.op = "authenticate" =>
        /\ ~last.force /\ WellFormedUnexpired(last.pre_file) =>
              /\ last.logins = 0 /\ last.ret /\ ~last.raised
              /\ cache.kind = "object"
              /\ client.token = cache.token
              /\ client.token_expires_at = cache.exp
        /\ last.force =>
              /\ last.logins = 1
              /\ ~last.loaded
              /\ last.token_changed => client.token = last.want

\* authenticate(force=False) of a client without token found a usable entry
C8_Witness ==
    /\ last.op = "authenticate" /\ ~last.force
    /\ WellFormedUnexpired(last.pre_file)
    /\ ~last.had_token /\ last.logins = 0
    /\ client.token = "tok_ext"

\* the token issued at i.at for i.ttl seconds is usable now
UsableSince(i) == now < i.at + i.ttl - SafetyMargin

\* C9: is_token_valid returns True exactly when a token is held and
\* now < expiry - 10; a token the router issued at time t for 299 s is reported
\* valid at t and invalid from t + 289 on, by is_token_valid and by a load from
\* the cache.
C9_ValidUntilMargin ==
    /\ last.op = "is_token_valid" /\ ~last.raised =>
         (last.ret <=> /\ client.token # None
                       /\ client.token_expires_at # NoExpiry
                       /\ now < client.token_expires_at - SafetyMargin)
    /\ last.op = "is_token_valid" /\ ~last.raised /\ client.token # None
          /\ issued.mem # NoIssue =>
         (last.ret <=> UsableSince(issued.mem))
    /\ last.op = "load_token_from_cache" /\ ~last.raised
          /\ last.pre_issued.file # NoIssue =>
         (last.ret <=> UsableSince(last.pre_issued.file))

\* C10: load_token_from_cache deletes the cache file whose entry has expired
\* (now >= expires_at - 10) and reports a miss, also when the entry is corrupt
\* in that it lacks the token.
C10_ExpiredEntryDeleted ==
    last.op = "load_token_from_cache" /\ ~last.raised
        /\ last.pre_file.kind = "object" /\ last.pre_file.expired
        => ~last.ret /\ cache = AbsentFile

\* C17: authenticate never lets an exception escape: whatever the cache file
\* holds (no file, malformed, valid JSON of any shape and field types) and
\* however the login ends (transport error, HTTP error status, non-JSON body,
\* JSON of any shape), the call returns True or False.
C17_AuthenticateNeverRaises ==
    last.op = "authenticate" => ~last.raised

\* the texts of seq, as a set
TextsOf(seq) == {seq[k] : k \in 1..Len(seq)}

\* C14: a multi-segment send that aborts at segment k returns the failing error
\* of segment k: its "error" holds the router's error messages when the router
\* reported the failure, and the transport error description when the
\* submission failed in transport.
C14_FailureCarriesError ==
    last.op = "send_sms" /\ last.sms.kind = "part_failed" =>
        /\ last.sms.result.kind = "json" =>
              \A k \in 1..Len(last.sms.result.errors) :
                 last.sms.result.errors[k].error \in TextsOf(last.sms.error_msgs)
        /\ last.sms.result.kind = "request_error" =>
              last.sms.result.error \in TextsOf(last.sms.error_msgs)

\* the client ends up as a load of the entry the last save wrote leaves it
HoldsSavedToken ==
    /\ last.ret
    /\ client.token = issued.save.token
    /\ client.token_expires_at = issued.save.at + issued.save.ttl
    /\ client.auth_header = issued.save.token
    /\ client.sysauth_cookie = issued.save.token

WithoutScheme(url) ==
    IF StartsWith(url, HttpsScheme) THEN SubSeq(url, Len(HttpsScheme) + 1, Len(url))
    ELSE SubSeq(url, Len(HttpScheme) + 1, Len(url))

\* the length of the host: the characters before the first "/"
RECURSIVE HostLen(_)
HostLen(rest) ==
    IF rest = <<>> \/ Head(rest) = "/" THEN 0 ELSE 1 + HostLen(Tail(rest))

\* text without the "/" at its end
RECURSIVE WithoutTrailingSlashes(_)
WithoutTrailingSlashes(text) ==
    IF text # <<>> /\ text[Len(text)] = "/"
    THEN WithoutTrailingSlashes(SubSeq(text, 1, Len(text) - 1))
    ELSE text

HostOf(url) == SubSeq(WithoutScheme(url), 1, HostLen(WithoutScheme(url)))

\* the path a router URL denotes ("/x/" and "/x" denote the same path)
PathOf(url) ==
    WithoutTrailingSlashes(SubSeq(WithoutScheme(url), HostLen(WithoutScheme(url)) + 1,
                                  Len(WithoutScheme(url))))

\* C19: two Router Clients constructed with router URLs that denote different
\* hosts or different paths never use the same cache file.
C19_DifferentRoutersDifferentFiles ==
    /\ token_cache_files # <<>>
    /\ \/ HostOf(router_urls[1]) # HostOf(router_urls[2])
       \/ PathOf(router_urls[1]) # PathOf(router_urls[2])
    => token_cache_files[1] # token_cache_files[2]

(***************************************************************************)
(* Claims about the modem selection (checked under ModemSpec)              *)
(***************************************************************************)

\* every modem of the list carries an id
AllModemsHaveIds(data) == \A k \in 1..Len(data) : data[k].id # Absent

\* the modem C15 names for a list: the first modem flagged primary, else the
\* first modem, else the fallback
ModemToUse(modems) ==
    IF ~ModemsRetrieved(modems) \/ modems.data = <<>> THEN FallbackModem
    ELSE IF \E k \in 1..Len(modems.data) : modems.data[k].primary
    THEN modems.data[CHOOSE k \in 1..Len(modems.data) :
                        /\ modems.data[k].primary
                        /\ \A j \in 1..(k - 1) : ~modems.data[j].primary].id
    ELSE modems.data[1].id

\* C15: for every modem list and every assignment of modem ids, the gateway
\* sends through the first modem flagged primary if there is one, otherwise
\* through the first modem if the list is non-empty, otherwise through the
\* fallback "1-1.4"; main selects the same modem for the same list.
C15_ModemSelection ==
    /\ selection.by # "none"
    /\ AllModemsHaveIds(selection.modems.data)
    => selection.modem_id = ModemToUse(selection.modems)

\* the modem queries among reqs
ModemRequests(reqs) == SelectSeq(reqs, LAMBDA q : q.kind = "modems")

\* no segment is submitted twice in posted
PostedOnce(posted) ==
    \A j, k \in 1..Len(posted) : posted[j].seg = posted[k].seg => j = k

\* C21: no request is repeated automatically: one authenticate call issues at
\* most one login request, and returns False when that login yields no token,
\* as after a transport error; one get_modems call issues at most one modem
\* query; one send_sms call submits every segment (or the unsplit message) at
\* most once, each turn of it issuing at most one POST; and a POST that fails
\* in transport ends send_sms with a failure result that carries the error,
\* after that one POST.
C21_NoAutomaticRetry ==
    /\ last.op = "authenticate" =>
         /\ last.logins <= 1
         /\ last.reqs = <<>>
         /\ last.logins = 1 /\ ~last.stored => ~last.ret
    /\ last.op = "get_modems" =>
         /\ last.logins <= 1
         /\ Len(ModemRequests(last.reqs)) <= 1
         /\ SendRequests(last.reqs) = <<>>
    /\ pc = "sending" => PostedOnce(send.posted)
    /\ last.op \in {"send_part", "send_sms"} =>
         /\ Len(SendRequests(last.reqs)) <= 1
         /\ Len(ModemRequests(last.reqs)) <= 1
    /\ last.op = "send_sms" =>
         /\ PostedOnce(last.sms.posted)
         /\ last.sms.posted # <<>> =>
               /\ Len(SendRequests(last.reqs)) = 1
               /\ SendRequests(last.reqs)[1].seg =
                     last.sms.posted[Len(last.sms.posted)].seg
    /\ last.op = "send_sms" /\ last.sms.result.kind = "request_error" =>
         /\ ~last.sms.success
         /\ last.sms.kind = "single" => last.sms.result.error # None
         /\ ~last.sms.posted[Len(last.sms.posted)].success
         /\ Len(SendRequests(last.reqs)) = 1
         /\ pc = "idle"

\* the POST of the second segment of a split message failed in transport:
\* send_sms returned a failure after one POST of that segment
C21_Witness ==
    /\ last.op = "send_sms" /\ last.sms.kind = "part_failed"
    /\ last.sms.result.kind = "request_error"
    /\ last.sms.failed_part = 2
    /\ Len(SendRequests(last.reqs)) = 1
    /\ ~last.sms.success


\* the sum of the sms_used values of the responses to the submissions of posted
RECURSIVE SumSmsUsed(_)
SumSmsUsed(posted) ==
    IF posted = <<>> THEN 0 ELSE Head(posted).sms_used + SumSmsUsed(Tail(posted))

\* the send_sms calls of SendCalls whose message is split
SplitCalls == {call \in SendCalls : call.split /\ Len(call.msg) > SendMaxLen}

\* C22: when all N segments of a split message were submitted successfully,
\* send_sms returns success = True, sms_used = the sum of the sms_used values
\* of the N responses, parts = N, and message_length = the length of the
\* original message.
C22_TotalsOfSplitSend ==
    last.op = "send_sms" /\ last.sms.kind = "all_sent" =>
       /\ last.sms.success
       /\ \A j \in 1..Len(last.sms.posted) : last.sms.posted[j].success
       /\ last.sms.sms_used = SumSmsUsed(last.sms.posted)
       /\ last.sms.parts = Len(last.sms.posted)
       /\ \E call \in SplitCalls :
             /\ last.sms.parts =
                   Len(split_sms_message(call.msg, SendMaxLen, TRUE).parts)
             /\ last.sms.message_length = Len(call.msg)

\* the segments of a split message were all submitted, and the responses
\* reported different sms_used values
C22_Witness ==
    /\ last.op = "send_sms" /\ last.sms.kind = "all_sent"
    /\ Len(last.sms.posted) >= 3
    /\ last.sms.posted[1].sms_used # last.sms.posted[2].sms_used
    /\ last.sms.sms_used >= 4


\* what the call found in the cache file is one of the causes of a miss: no
\* file, malformed JSON, an object without token or without expires_at, or an
\* entry whose expires_at, less the safety margin, has been reached
MissCause(found) ==
    \/ found.kind \in {"absent", "malformed"}
    \/ /\ found.kind = "object"
       /\ \/ ~found.has_token
          \/ found.exp_kind = "absent"
          \/ found.exp_kind = "num" /\ found.expired

C12_AuthFailureAnswers401 ==
    gw.stage = "done" /\ gw.auth_failed => gw.status = 401

\* C13: whenever the router reports a send failure (success=false with an
\* errors list) for a gateway request, the gateway answers 422 and the detail
\* of the response contains the router's error text, for a message sent in
\* one segment and for a message sent in several segments alike.
C13_RouterErrorInDetail ==
    gw.stage = "done" /\ gw.router_errors # <<>> =>
        /\ gw.status = 422
        /\ \A k \in 1..Len(gw.router_errors) :
              gw.router_errors[k].error \in TextsOf(gw.detail.msgs)

\* what a request causes and receives: the handler's record without the
\* caller's username and password
Observable(g) == [g EXCEPT !.caller = NoCaller]

\* the router section of the configuration lacks the url, the username or the
\* password
ConfigIncomplete(config) ==
    config.url = None \/ config.username = None \/ config.password = None

Rejected(g) == g.stage # "idle" /\ (g.phone_number = <<>> \/ g.message = <<>>)

\* such a request is answered, with 400, before a router client exists: it
\* has caused no login, no modem query and no submission
RejectedUntouched(g) ==
    /\ g.stage = "done" /\ g.status = 400
    /\ g.router_user = None /\ g.router_password = None
    /\ g.logins = <<>> /\ g.reqs = <<>>
    /\ g.modem_id = None /\ g.segments = 0 /\ ~g.auth_failed

\* the step that rejects a request, and the step that follows the rejection,
\* leave the cache file as it is
RejectionKeepsCache == Rejected(gw') \/ Rejected(gw) => cache' = cache

\* C23: a gateway request whose decoded and normalized number is empty, or
\* whose decoded text is empty, is answered with status 400 and causes no
\* router interaction: no login, no modem query and no submission are made for
\* it, and the token cache is the same before and after the rejection.
C23_EmptyParameterRejected ==
    /\ [](Rejected(gw) => RejectedUntouched(gw))
    /\ [][RejectionKeepsCache]_vars

\* a request with a number of formatting characters only and a non-empty text
\* has been answered with 400 while a token cache existed
C23_Witness ==
    /\ gw.stage = "done" /\ gw.status = 400
    /\ gw.phone_number = <<>> /\ gw.message # <<>>
    /\ cache.kind # "absent"


(***************************************************************************)
(* Claims about normalize_phone_number (checked under NormalizeSpec)       *)
(***************************************************************************)

\* the digits of a number, in their order
DigitsIn(number) == SelectSeq(number, LAMBDA c : c \in Digits)

\* a number without the characters space, dash, parentheses, slash and dot
Unformatted(number) ==
    SelectSeq(number, LAMBDA c : c \notin {" ", "-", "(", ")", "/", "."})

\* the number has a leading "+", and a digit is what follows it once the
\* formatting characters are set aside
PlusThenDigit(number) ==
    /\ number # <<>>
    /\ number[1] = "+"
    /\ Unformatted(Tail(number)) # <<>>
    /\ Unformatted(Tail(number))[1] \in Digits

C32_NormalizeIdempotent == phone.pc = "twice" => phone.again = phone.output

(***************************************************************************)
(* Claims about concurrent processes on the cache file (RaceSpec)          *)
(***************************************************************************)

\* a load that hit holds the token and the expiry of one and the same save
AdoptsOneSave ==
    \A p \in Procs :
        procs[p].result = "hit" =>
            [token |-> procs[p].token,
             expires_at |-> procs[p].token_expires_at] \in saves.entries

\* load_token_from_cache raises nothing, and a file whose text is not one
\* entry lets a load at its read go on to a miss
CorruptIsMiss ==
    \A p \in Procs :
        /\ ~procs[p].raised
        /\ procs[p].pc = "parsed" => JsonDump(procs[p].data) \in
              {JsonDump(e) : e \in saves.entries}

\* a load made from start to end after the last save completed, while that
\* save's entry is unexpired, hits with that entry
HitsAfterCompletedSave ==
    \A p \in Procs :
        /\ procs[p].pc = "idle"
        /\ procs[p].result = "miss"
        /\ SaversIdle
        /\ saves.seq >= 1
        /\ procs[p].after = saves.seq
        => ~NotExpired(procs[p].at, saves.last.expires_at)

\* C11: under every interleaving of save_token_to_cache and
\* load_token_from_cache of concurrent processes on one cache file, a load
\* misses or adopts token and expiry of the same save, a partially written
\* or corrupted file is a miss without an error, and after the next
\* completed save a load hits again.
C11_LoadsUnderInterleaving ==
    /\ AdoptsOneSave
    /\ CorruptIsMiss
    /\ HitsAfterCompletedSave

\* the entry the cache file holds is complete and unexpired at time t
HoldsUnexpiredEntry(d, t) ==
    /\ d.inode # 0
    /\ JsonLoad(d.bytes).ok
    /\ JsonLoad(d.bytes).token # <<>>
    /\ NotExpired(t, JsonLoad(d.bytes).expires_at)

\* the unlink of a load removes the file although its entry is unexpired
DeletesUnexpiredEntry ==
    \E p \in Procs :
        /\ procs[p].pc = "expired" /\ procs'[p].pc = "idle"
        /\ disk'.inode = 0
        /\ HoldsUnexpiredEntry(disk, now)

\* C31: with several processes on one cache file, a load never deletes an
\* entry that is unexpired at the moment of the deletion: the token a
\* concurrent authenticate saved is still in the cache after a load that had
\* read the previous, expired entry.
C31_LoadKeepsFreshEntry == [][~DeletesUnexpiredEntry]_vars

====
